---- MODULE Spec2Model ----
(***************************************************************************)
(* Verification model of the Sega Master System emulator core:             *)
(*   - the VDP port interface and scanline timing (vdp/vdp.cpp,            *)
(*     vdp/vdp_register.cpp) behind the bus port routing (mem/bus.cpp);    *)
(*   - the Z80 step loop, interrupt servicing and the block-copy           *)
(*     instructions (z80/z80.cpp, z80/instructions.cpp, z80/util.h).       *)
(*                                                                         *)
(* The specifications share the variables:                                 *)
(*   SpecVdpIo     - the guest drives the VDP through ports 0xBE / 0xBF    *)
(*   SpecVdpTiming - the host feeds cycles to Vdp::step, the guest         *)
(*                   programs the mode registers through port 0xBF         *)
(*   SpecVdpReset  - SpecVdpIo with Vdp::reset called in between           *)
(*   SpecCpu       - a host calls Z80::step and Z80::raise_interrupt on a  *)
(*                   flat 64 KiB memory                                    *)
(*   SpecBus       - the guest reads and writes through the memory mapper  *)
(*   SpecFlow      - short runs of control-flow, stack and exchange        *)
(*                   instructions                                          *)
(*   SpecJr        - relative jumps, under either copy of the instruction  *)
(*                   source that a build may compile                       *)
(*   SpecAlu       - the 16-bit ADC / SBC on HL                            *)
(*   SpecCpm       - the main loop of test/cpm_test.cpp                    *)
(*   SpecRot       - the accumulator rotates and the CB-prefixed rotates   *)
(*                   and shifts on registers                               *)
(*   SpecBit       - BIT n on a register, (HL), (IX+d) and (IY+d)          *)
(*   SpecBcd       - ADC / SBC A,n followed by DAA                         *)
(*   SpecOtir      - a run of OTIR iterations                              *)
(*   SpecBlockIrq  - LDIR / LDDR with interrupts raised in between         *)
(*   SpecVdpMode   - control-port pairs that write VDP registers 0 and 1   *)
(*   SpecHost      - the main loop of main.cpp: raise_interrupt, Z80::step *)
(*                   with the bus port handlers, Vdp::step                 *)
(* A component that a specification does not drive keeps its reset value.  *)
(***************************************************************************)
EXTENDS Integers, Naturals, Sequences, FiniteSets, TLC

VARIABLES
    vdp,      \* the globals of namespace Vdp (vdp.cpp, vdp_register.cpp)
    z80,      \* Z80::z80, the CPU aggregate
    memory,   \* the host memory behind z80.read_byte / z80.write_byte
    bus,      \* the globals of namespaces Bus, Rom, Bios and Mem
    aborted,  \* TRUE once logfatal()/exit() has ended the process
    last,     \* bookkeeping: the operation performed last and what it returned
    io,       \* bookkeeping: data-port accesses since the last completed control pair
    blk,      \* bookkeeping: the run of a block instruction in progress
    ghost,    \* bookkeeping: counters that bound the exploration
    harness   \* the globals of test/cpm_test.cpp: should_quit, the text printed
              \* and the exit status of the process

vars == <<vdp, z80, memory, bus, aborted, last, io, blk, ghost, harness>>

(***************************************************************************)
(* Bounds of the exploration (not program constants).                      *)
(***************************************************************************)
MaxDataWrites == 2      \* data-port writes per behaviour
MaxDataReads == 2       \* data-port reads after one control pair
MaxFrames == 2          \* frames' worth of cycles fed to Vdp::step
MaxSteps == 3           \* Z80::step calls per behaviour
MaxBlock == 2           \* longest block copy (initial BC) followed
MaxBusWrites == 2       \* Bus::write_byte calls per behaviour
RomBanks == 4           \* 16 KiB banks in the cartridge file

(***************************************************************************)
(* Fixed-width arithmetic helpers.                                         *)
(***************************************************************************)
Bit(x, n) == (x \div (2 ^ n)) % 2
U8(x) == x % 256
U16(x) == x % 65536
Lo8(w) == w % 256
Hi8(w) == (w \div 256) % 256

(***************************************************************************)
(* Util::Bitfield<E> over a u8: operator[] and FieldRef::operator=.        *)
(* `field` is a one-bit mask given by its bit number.                      *)
(***************************************************************************)
BitfieldGet(raw, bit) == Bit(raw, bit)

BitfieldSet(raw, bit, value) ==
    (raw - Bit(raw, bit) * (2 ^ bit)) + (value % 2) * (2 ^ bit)

(***************************************************************************)
(* Program constants of vdp.cpp.                                           *)
(***************************************************************************)
num_scanlines == 262
fps == 60
cycles_per_line == (3579545 \div num_scanlines) \div fps

COMMAND_VRAM_READ == 0
COMMAND_VRAM_WRITE == 1
COMMAND_REGISTER_WRITE == 2
COMMAND_CRAM_WRITE == 3

VramSize == 16384
CramSize == 32

(***************************************************************************)
(* u8 vram[0x4000] is kept sparse: the function holds the non-zero cells,  *)
(* every other cell reads 0 (reset() clears the array).                    *)
(***************************************************************************)
VramGet(vr, a) == IF a \in DOMAIN vr THEN vr[a] ELSE 0

VramSet(vr, a, v) ==
    IF v = 0
    THEN [x \in (DOMAIN vr) \ {a} |-> vr[x]]
    ELSE [x \in (DOMAIN vr) \cup {a} |-> IF x = a THEN v ELSE vr[x]]


(***************************************************************************)
(* vdp_register.cpp: register_write.  Mode bits: M1 = bit 0, M2 = bit 1,   *)
(* M3 = bit 2, M4 = bit 3 of mode.raw.  Case 1 reads its two mode bits     *)
(* from vdpModeControl1 (masks VdpModeControl2::M1 = 1<<4, M3 = 1<<3).     *)
(***************************************************************************)
register_write_fatal(reg, value) ==
    \/ reg \in {2, 3, 4, 5} /\ value # 255
    \/ reg > 10

register_write(V, reg, value) ==
    CASE reg = 0 ->
           [V EXCEPT !.vdpModeControl1 = value,
                     !.mode = BitfieldSet(BitfieldSet(V.mode, 1, BitfieldGet(value, 1)),
                                          3, BitfieldGet(value, 2))]
      [] reg = 1 ->
           [V EXCEPT !.vdpModeControl2 = value,
                     !.mode = BitfieldSet(BitfieldSet(V.mode, 0, BitfieldGet(V.vdpModeControl1, 4)),
                                          2, BitfieldGet(V.vdpModeControl1, 3))]
      [] reg = 7 -> [V EXCEPT !.overscan_bg_color = value % 16]
      [] reg = 8 -> [V EXCEPT !.bg_x_scroll = value]
      [] reg = 9 -> [V EXCEPT !.bg_y_scroll = value]
      [] reg = 10 -> [V EXCEPT !.lc_reload = value]
      [] OTHER -> V

(***************************************************************************)
(* vdp.cpp: process_command.  The VRAM-read case increments the u16        *)
(* address without masking it to 14 bits.                                  *)
(***************************************************************************)
process_command_fatal(V) ==
    /\ V.code = COMMAND_REGISTER_WRITE
    /\ register_write_fatal((V.address \div 256) % 16, V.address % 256)

process_command(V) ==
    CASE V.code = COMMAND_VRAM_READ ->
           [V EXCEPT !.read_buffer = VramGet(V.vram, V.address),
                     !.address = U16(V.address + 1)]
      [] V.code = COMMAND_REGISTER_WRITE ->
           register_write(V, (V.address \div 256) % 16, V.address % 256)
      [] OTHER -> V

(***************************************************************************)
(* vdp.cpp: write_control.  ctrl_high is toggled after the command ran;    *)
(* a fatal command leaves it as it was.                                    *)
(***************************************************************************)
write_control_latch(V, value) ==
    IF V.ctrl_high
    THEN [V EXCEPT !.address = (V.address % 256) + (value % 64) * 256,
                   !.code = (value \div 64) % 4]
    ELSE [V EXCEPT !.address = (V.address \div 256) * 256 + value]

write_control_fatal(V, value) ==
    V.ctrl_high /\ process_command_fatal(write_control_latch(V, value))

write_control(V, value) ==
    LET L == write_control_latch(V, value)
        P == IF V.ctrl_high THEN process_command(L) ELSE L
    IN  IF write_control_fatal(V, value)
        THEN L
        ELSE [P EXCEPT !.ctrl_high = ~V.ctrl_high]

(***************************************************************************)
(* vdp.cpp: write_data.  The CRAM case indexes u8 cram[32] with the whole  *)
(* 14-bit address.  An index >= 32 is an out-of-bounds store: the byte     *)
(* lands in whichever object the linker placed behind cram - `screen`      *)
(* (defined after it; not part of this model) or `vram` (defined before    *)
(* it, adjacent when the objects are laid out in reverse order).  `ub`     *)
(* selects between the two outcomes.                                       *)
(***************************************************************************)
UBOutcomes == {"screen", "vram"}

cram_store(V, value, ub) ==
    IF V.address < CramSize
    THEN [V EXCEPT !.cram[V.address] = value % 64]
    ELSE IF ub = "vram"
         THEN [V EXCEPT !.vram = VramSet(V.vram, V.address - CramSize, value % 64)]
         ELSE V

vram_store(V, value) ==
    IF V.address < VramSize
    THEN [V EXCEPT !.vram = VramSet(V.vram, V.address, value)]
    ELSE V

write_data_fatal(V) == V.code = COMMAND_VRAM_READ

\* write_data with the address increment left unmasked.
write_data_unmasked(V, value, ub) ==
    LET V1 == [V EXCEPT !.read_buffer = value, !.ctrl_high = FALSE]
    IN  CASE V1.code \in {COMMAND_REGISTER_WRITE, COMMAND_VRAM_WRITE} ->
               [vram_store(V1, value) EXCEPT !.address = V1.address + 1]
          [] V1.code = COMMAND_CRAM_WRITE ->
               [cram_store(V1, value, ub) EXCEPT !.address = V1.address + 1]
          [] OTHER -> V1

write_data(V, value, ub) ==
    LET V1 == [V EXCEPT !.read_buffer = value, !.ctrl_high = FALSE]
    IN  CASE V1.code \in {COMMAND_REGISTER_WRITE, COMMAND_VRAM_WRITE} ->
               [vram_store(V1, value) EXCEPT !.address = (V1.address + 1) % 16384]
          [] V1.code = COMMAND_CRAM_WRITE ->
               [cram_store(V1, value, ub) EXCEPT !.address = (V1.address + 1) % 16384]
          [] OTHER -> V1

(***************************************************************************)
(* vdp.cpp: render_scanline_mode4.  The pixels go to `screen`, which is    *)
(* not part of this model; what matters to the VDP state is whether the    *)
(* line aborts: a nametable entry of the row with bit 10 (vflip) or bit 11 *)
(* (second palette) set is fatal.  The entry's high byte is at the odd     *)
(* address 0x3800 | (tile_y << 6) | (tile_x << 1) | 1.                     *)
(***************************************************************************)
nametable_base == 14336

render_scanline_mode4_fatal(V, line) ==
    \E tile_x \in 0..31 :
        LET addr == nametable_base + (line \div 8) * 64 + tile_x * 2
            hi == VramGet(V.vram, addr + 1)
        IN  Bit(hi, 2) = 1 \/ Bit(hi, 3) = 1

(***************************************************************************)
(* vdp.cpp: scanline.  The frame-interrupt test reads vdpModeControl1      *)
(* through the mask VdpModeControl2::FrameInterruptEnable (1 << 5).        *)
(* --line_counter == 0xFF (decrement from 0) is fatal.                     *)
(***************************************************************************)
scanline_fatal(V) ==
    \/ V.mode \notin {10, 11}
    \/ V.vcounter <= 192 /\ render_scanline_mode4_fatal(V, V.vcounter)
    \/ V.vcounter <= 192 /\ U8(V.line_counter + 255) = 255

scanline(V) ==
    [V EXCEPT
       !.frame_interrupt =
           IF V.vcounter = 224 /\ BitfieldGet(V.vdpModeControl1, 5) = 1
           THEN TRUE ELSE @,
       !.line_counter =
           IF V.vcounter <= 192 THEN U8(@ + 255) ELSE V.lc_reload,
       !.vcounter = (@ + 1) % num_scanlines]

(***************************************************************************)
(* vdp.cpp: step.  One test of the accumulated counter per call.           *)
(***************************************************************************)
Vdp_step_fatal(V, cycles) ==
    /\ V.cycle_counter + cycles >= cycles_per_line
    /\ scanline_fatal(V)

Vdp_step(V, cycles) ==
    LET V1 == [V EXCEPT !.cycle_counter = @ + cycles]
    IN  IF V1.cycle_counter >= cycles_per_line
        THEN scanline([V1 EXCEPT !.cycle_counter = @ - cycles_per_line])
        ELSE V1

(***************************************************************************)
(* vdp.cpp: interrupt_pending and get_status.                              *)
(***************************************************************************)
interrupt_pending(V) ==
    \/ V.frame_interrupt /\ BitfieldGet(V.vdpModeControl2, 5) = 1
    \/ V.line_interrupt /\ BitfieldGet(V.vdpModeControl1, 4) = 1

get_status_value(V) == (IF V.frame_interrupt THEN 128 ELSE 0) + 15

get_status(V) == [V EXCEPT !.frame_interrupt = FALSE, !.line_interrupt = FALSE]

(***************************************************************************)
(* vdp.cpp: the state of the namespace's globals at program start          *)
(* (static storage is zero-initialised; lc_reload = 0xFF) and reset().     *)
(***************************************************************************)
VdpStatic ==
    [ctrl_high |-> FALSE, code |-> 0, address |-> 0, read_buffer |-> 0,
     vram |-> <<>>, cram |-> [i \in 0..(CramSize - 1) |-> 0],
     cycle_counter |-> 0, hcounter |-> 0, vcounter |-> 0, line_counter |-> 0,
     line_interrupt |-> FALSE, frame_interrupt |-> FALSE,
     vdpModeControl1 |-> 0, vdpModeControl2 |-> 0, mode |-> 0,
     overscan_bg_color |-> 0, bg_x_scroll |-> 0, bg_y_scroll |-> 0,
     lc_reload |-> 255]

Vdp_reset(V) ==
    [V EXCEPT !.line_counter = 255, !.cycle_counter = 0, !.hcounter = 0,
              !.vcounter = 0, !.vram = <<>>,
              !.cram = [i \in 0..(CramSize - 1) |-> 0]]

(***************************************************************************)
(* bus.cpp: port_out and port_in, the VDP-facing rows.                     *)
(***************************************************************************)
port_out_fatal(V, port, value) ==
    CASE port \in 64..127 -> FALSE
      [] port = 190 -> write_data_fatal(V)
      [] port = 191 -> write_control_fatal(V, value)
      [] port = 62 -> FALSE
      [] OTHER -> TRUE

port_out(V, port, value, ub) ==
    CASE port = 190 -> write_data(V, value, ub)
      [] port = 191 -> write_control(V, value)
      [] OTHER -> V

port_in_fatal(port) ==
    CASE port \in 64..127 -> port % 2 = 1
      [] port \in 128..191 -> FALSE
      [] port \in {220, 221} -> FALSE
      [] OTHER -> TRUE

port_in_value(V, port) ==
    CASE port \in 64..127 -> U8(V.vcounter)
      [] port \in 128..191 ->
           IF port % 2 = 1 THEN get_status_value(V) ELSE V.read_buffer
      [] OTHER -> 255

port_in(V, port) ==
    IF port \in 128..191 /\ port % 2 = 1 THEN get_status(V) ELSE V

(***************************************************************************)
(* bus.cpp, rom.cpp, bios.cpp: the memory bus.  The BIOS and cartridge     *)
(* files are inputs: BiosData and RomData are their bytes, bios_size is    *)
(* the length of Bios::data (0 when no BIOS file was found) and RomSize    *)
(* the length of Rom::rom.data.  Mem::ram is the 8 KiB work RAM, kept as   *)
(* the function of its non-zero cells.                                     *)
(***************************************************************************)
BiosSize == 8192
SlotSize == 16384
RomSize == RomBanks * SlotSize

BiosData(i) == (165 + 3 * i) % 256
RomData(i) == (60 + 17 * (i \div SlotSize) + (i % SlotSize)) % 256

RECURSIVE AndBits(_, _, _)
AndBits(a, b, n) ==
    IF n = 0 THEN 0
    ELSE (a % 2) * (b % 2) + 2 * AndBits(a \div 2, b \div 2, n - 1)

\* u8 & u8
BitAnd(a, b) == AndBits(a, b, 8)

RamGet(ram, a) == IF a \in DOMAIN ram THEN ram[a] ELSE 0

RamSet(ram, a, v) ==
    [x \in (IF v = 0 THEN (DOMAIN ram) \ {a} ELSE (DOMAIN ram) \cup {a}) |->
        IF x = a THEN v ELSE ram[x]]

\* The static initialisation of the globals of Bus and Rom.
BusStatic ==
    [enable_joysticks |-> TRUE, enable_bios |-> TRUE, enable_ram |-> TRUE,
     enable_card_rom |-> FALSE, enable_cart_rom |-> FALSE,
     enable_ext_port |-> FALSE,
     ram |-> <<>>, bios_size |-> 0,
     bank_offsets |-> [s \in 0..2 |-> 0],
     rom_write |-> TRUE, ram_0 |-> FALSE, ram_1 |-> FALSE,
     ram_bank_select |-> FALSE, bank_shift |-> 0]

\* bios.cpp: try_load.  `found` says whether the BIOS file exists.
Bios_try_load(B, found) ==
    IF found THEN [B EXCEPT !.bios_size = BiosSize] ELSE B

update_memory_enables(B, value) ==
    [B EXCEPT !.enable_joysticks = (Bit(value, 2) = 1),
              !.enable_bios = (Bit(value, 3) = 1),
              !.enable_ram = (Bit(value, 4) = 1),
              !.enable_card_rom = (Bit(value, 5) = 1),
              !.enable_cart_rom = (Bit(value, 6) = 1),
              !.enable_ext_port = (Bit(value, 7) = 1)]

\* rom.cpp: Rom::read.  The index into rom.data, and the byte there; an
\* index past the end of the vector is undefined behaviour.
Rom_read_index(B, address) ==
    B.bank_offsets[address \div SlotSize] + (address % SlotSize)

Rom_read_ub(B, address) == Rom_read_index(B, address) >= RomSize

Rom_read(B, address) == RomData(Rom_read_index(B, address))

\* An out-of-bounds read of a std::vector either ends the process (-1) or
\* yields whatever byte lies there.
UBReadOutcomes == {-1, 0, 255}

\* bus.cpp: Bus::read_byte.  Does the read index Bios::data or rom.data
\* past its end?
Bus_read_byte_ub(B, address) ==
    /\ address < 49152
    /\ \/ B.enable_bios /\ address % 8192 >= B.bios_size
       \/ B.enable_cart_rom /\ Rom_read_ub(B, address)

\* Bus::read_byte with the BIOS taken as the only source when it is enabled.
Bus_read_byte_bios_over_cart(B, address, g) ==
    IF address < 49152
    THEN IF B.enable_bios
         THEN IF address % 8192 >= B.bios_size THEN g
              ELSE BiosData(address % 8192)
         ELSE IF B.enable_cart_rom
              THEN IF Rom_read_ub(B, address) THEN g ELSE Rom_read(B, address)
              ELSE 255
    ELSE RamGet(B.ram, address % 8192)

\* Bus::read_byte; g is the byte an out-of-bounds read yields.
Bus_read_byte(B, address, g) ==
    IF address < 49152
    THEN LET v0 == 255
             v1 == IF B.enable_bios
                   THEN BitAnd(v0, IF address % 8192 >= B.bios_size THEN g
                                   ELSE BiosData(address % 8192))
                   ELSE v0
         IN  IF B.enable_cart_rom
             THEN BitAnd(v1, IF Rom_read_ub(B, address) THEN g
                             ELSE Rom_read(B, address))
             ELSE v1
    ELSE RamGet(B.ram, address % 8192)

\* rom.cpp: mapper_ctrl_write.  The unimplemented() checks of the 0xFFFC
\* case exit after the five fields have been assigned.
mapper_ctrl_write_fatal(address, value) ==
    \/ address \notin 65532..65535
    \/ /\ address = 65532
       /\ \/ Bit(value, 7) = 0
          \/ Bit(value, 4) = 1
          \/ Bit(value, 3) = 1
          \/ Bit(value, 2) = 1
          \/ value % 4 # 0

\* mapper_ctrl_write programming slot 0 whatever the register.
mapper_ctrl_write_slot0(B, address, value) ==
    CASE address = 65532 ->
           [B EXCEPT !.rom_write = (Bit(value, 7) = 1),
                     !.ram_0 = (Bit(value, 4) = 1),
                     !.ram_1 = (Bit(value, 3) = 1),
                     !.ram_bank_select = (Bit(value, 2) = 1),
                     !.bank_shift = value % 4]
      [] address \in 65533..65535 ->
           [B EXCEPT !.bank_offsets[0] = value * SlotSize]
      [] OTHER -> B

mapper_ctrl_write(B, address, value) ==
    CASE address = 65532 ->
           [B EXCEPT !.rom_write = (Bit(value, 7) = 1),
                     !.ram_0 = (Bit(value, 4) = 1),
                     !.ram_1 = (Bit(value, 3) = 1),
                     !.ram_bank_select = (Bit(value, 2) = 1),
                     !.bank_shift = value % 4]
      [] address \in 65533..65535 ->
           [B EXCEPT !.bank_offsets[address - 65533] = value * SlotSize]
      [] OTHER -> B

\* bus.cpp: Bus::write_byte.
Bus_write_byte_fatal(B, address, value) ==
    address >= 65532 /\ mapper_ctrl_write_fatal(address, value)

Bus_write_byte(B, address, value) ==
    CASE address < 49152 -> B
      [] address \in 49152..57343 ->
           [B EXCEPT !.ram = RamSet(@, address % 8192, value)]
      [] OTHER ->
           IF address >= 65532
           THEN IF mapper_ctrl_write_fatal(address, value)
                THEN mapper_ctrl_write(B, address, value)
                ELSE [mapper_ctrl_write(B, address, value) EXCEPT
                         !.ram = RamSet(@, address % 8192, value)]
           ELSE [B EXCEPT !.ram = RamSet(@, address % 8192, value)]

(***************************************************************************)
(* registers.h: FlagRegister::set and FlagRegister::assemble.              *)
(***************************************************************************)
FlagRegister_set(value) ==
    [s |-> Bit(value, 7) = 1, z |-> Bit(value, 6) = 1, b5 |-> Bit(value, 5) = 1,
     h |-> Bit(value, 4) = 1, b3 |-> Bit(value, 3) = 1, p_v |-> Bit(value, 2) = 1,
     n |-> Bit(value, 1) = 1, c |-> Bit(value, 0) = 1]

B2N(b) == IF b THEN 1 ELSE 0

FlagRegister_assemble(f) ==
    B2N(f.s) * 128 + B2N(f.z) * 64 + B2N(f.b5) * 32 + B2N(f.h) * 16
    + B2N(f.b3) * 8 + B2N(f.p_v) * 4 + B2N(f.n) * 2 + B2N(f.c)

(***************************************************************************)
(* z80.cpp: reset (memset to zero, then A = F = 0xFF, SP = 0xFFFF).        *)
(***************************************************************************)
Z80_reset ==
    [interrupt_mode |-> 0, interrupts_enabled |-> FALSE,
     next_interrupts_enabled |-> FALSE, interrupt_pending |-> FALSE,
     a |-> 255, f |-> FlagRegister_set(255),
     bc |-> 0, de |-> 0, hl |-> 0, pc |-> 0, sp |-> 65535, i |-> 0,
     ix |-> 0, iy |-> 0, r |-> 0,
     af_ |-> 0, bc_ |-> 0, de_ |-> 0, hl_ |-> 0,
     prev_immediate |-> 0, instructions |-> 0]

(***************************************************************************)
(* The host memory behind z80.read_byte / z80.write_byte: the flat         *)
(* u8 memory[0x10000] of test/cpm_test.cpp.  main() zeroes it, installs    *)
(* the stubs at 0x0000 and 0x0005 and copies the program file to 0x0100.   *)
(* The file is an input: `memory` holds the cells whose content has been   *)
(* fixed so far (fetched as code, read as data, or written); a file cell   *)
(* that was never touched reads as FileImage when it is first read as      *)
(* data, and is chosen by the Step action when it is first fetched.        *)
(* read_byte also compares the cell with the reference emulator's copy of  *)
(* memory and exits on a difference; the reference run is not part of this *)
(* model, which follows the memory of the CPU under test only.             *)
(***************************************************************************)
LoadAddress == 256

FileImage(a) == 1 + (a % 250)

MemDefault(a) ==
    IF a >= LoadAddress THEN FileImage(a)
    ELSE CASE a = 0 -> 211
           [] a = 5 -> 219
           [] a = 7 -> 201
           [] OTHER -> 0

read_byte(M, address) ==
    IF address \in DOMAIN M THEN M[address] ELSE MemDefault(address)

write_byte(M, address, value) ==
    [x \in (DOMAIN M) \cup {address} |-> IF x = address THEN value ELSE M[x]]

\* Reading a cell fixes its content.
Observe(M, address) ==
    IF address \in DOMAIN M THEN M ELSE write_byte(M, address, MemDefault(address))

(***************************************************************************)
(* z80/util.h: stack_push<u16> - high byte at --sp, then low byte at --sp. *)
(* X is the machine: [z |-> registers, m |-> memory].                      *)
(***************************************************************************)
stack_push_u8(X, value) ==
    [z |-> [X.z EXCEPT !.sp = U16(@ + 65535)],
     m |-> write_byte(X.m, U16(X.z.sp + 65535), value)]

\* stack_push<u16> storing the low byte first.
stack_push_u16_low_first(X, value) ==
    stack_push_u8(stack_push_u8(X, Lo8(value)), Hi8(value))

stack_push_u16(X, value) ==
    stack_push_u8(stack_push_u8(X, Hi8(value)), Lo8(value))

(***************************************************************************)
(* z80.cpp: service_interrupt.  Only interrupt mode 1 is implemented.      *)
(***************************************************************************)
service_interrupt_fatal(Z) == Z.interrupt_mode # 1

service_interrupt(X) ==
    LET Z1 == [X.z EXCEPT !.interrupts_enabled = FALSE,
                          !.next_interrupts_enabled = FALSE,
                          !.interrupt_pending = FALSE]
        P == stack_push_u16([z |-> Z1, m |-> X.m], Z1.pc)
    IN  IF service_interrupt_fatal(Z1)
        THEN [z |-> Z1, m |-> X.m]
        ELSE [z |-> [P.z EXCEPT !.pc = 56], m |-> P.m]

(***************************************************************************)
(* z80/instructions.cpp: the handlers.  Each returns the machine after the *)
(* instruction, its T-states, and whether it ended in exit().              *)
(***************************************************************************)
\* fx: what the instruction did through z80.port_in / z80.port_out (the
\* handlers of test/cpm_test.cpp): the port addressed, the text printed,
\* should_quit set, and a print loop that never ends.
NoFx == [port_in |-> -1, port_out |-> -1, out_value |-> -1, print |-> <<>>, quit |-> FALSE, hang |-> FALSE]

Done(Z, M, cycles) == [z |-> Z, m |-> M, cycles |-> cycles, fatal |-> FALSE, fx |-> NoFx]
Fatal(Z, M) == [z |-> Z, m |-> M, cycles |-> 0, fatal |-> TRUE, fx |-> NoFx]

instr_nop(Z, M) == Done(Z, M, 4)

instr_di(Z, M) ==
    Done([Z EXCEPT !.interrupts_enabled = FALSE,
                   !.next_interrupts_enabled = FALSE], M, 4)

\* EI taking effect at once.
instr_ei_immediate(Z, M) ==
    Done([Z EXCEPT !.interrupts_enabled = TRUE,
                   !.next_interrupts_enabled = TRUE], M, 4)

instr_ei(Z, M) == Done([Z EXCEPT !.next_interrupts_enabled = TRUE], M, 4)

instr_im_1(Z, M) == Done([Z EXCEPT !.interrupt_mode = 1], M, 8)

unimplemented_instr(Z, M) == Fatal(Z, M)

instr_ldi(Z, M) ==
    LET value == read_byte(M, Z.hl)
        M1 == write_byte(Observe(M, Z.hl), Z.de, value)
        bc1 == U16(Z.bc + 65535)
        r == U8(value + Z.a)
        Z1 == [Z EXCEPT !.hl = U16(@ + 1), !.de = U16(@ + 1), !.bc = bc1,
                        !.f.n = FALSE, !.f.h = FALSE, !.f.p_v = (bc1 > 0),
                        !.f.b3 = (Bit(r, 3) = 1), !.f.b5 = (Bit(r, 1) = 1)]
    IN  Done(Z1, M1, 16)

\* LDIR that never repeats.
instr_ldir_once(Z, M) ==
    LET L == instr_ldi(Z, M)
    IN  Done(L.z, L.m, 16)

instr_ldir(Z, M) ==
    LET L == instr_ldi(Z, M)
    IN  IF L.z.bc # 0
        THEN Done([L.z EXCEPT !.pc = U16(@ + 65534)], L.m, 21)
        ELSE Done(L.z, L.m, 16)

(***************************************************************************)
(* instructions.cpp: get_register / set_register / swap_registers for the  *)
(* registers this model moves, check_condition, read_16.                   *)
(***************************************************************************)
S8(b) == IF b >= 128 THEN b - 256 ELSE b

get_register(Z, reg) ==
    CASE reg = "A" -> Z.a
      [] reg = "AF" -> Z.a * 256 + FlagRegister_assemble(Z.f)
      [] reg = "AF_" -> Z.af_
      [] reg = "BC" -> Z.bc
      [] reg = "BC_" -> Z.bc_
      [] reg = "DE" -> Z.de
      [] reg = "DE_" -> Z.de_
      [] reg = "HL" -> Z.hl
      [] reg = "HL_" -> Z.hl_
      [] reg = "SP" -> Z.sp
      [] reg = "R" -> Z.r
      [] reg = "F" -> FlagRegister_assemble(Z.f)
      [] reg = "B" -> Hi8(Z.bc)
      [] reg = "C" -> Lo8(Z.bc)
      [] reg = "D" -> Hi8(Z.de)
      [] reg = "E" -> Lo8(Z.de)
      [] reg = "H" -> Hi8(Z.hl)
      [] reg = "L" -> Lo8(Z.hl)
      [] reg = "IX" -> Z.ix
      [] reg = "IY" -> Z.iy

set_register(Z, reg, value) ==
    CASE reg = "A" -> [Z EXCEPT !.a = value]
      [] reg = "AF" -> [Z EXCEPT !.a = value \div 256,
                                 !.f = FlagRegister_set(value % 256)]
      [] reg = "AF_" -> [Z EXCEPT !.af_ = value]
      [] reg = "BC" -> [Z EXCEPT !.bc = value]
      [] reg = "BC_" -> [Z EXCEPT !.bc_ = value]
      [] reg = "DE" -> [Z EXCEPT !.de = value]
      [] reg = "DE_" -> [Z EXCEPT !.de_ = value]
      [] reg = "HL" -> [Z EXCEPT !.hl = value]
      [] reg = "HL_" -> [Z EXCEPT !.hl_ = value]
      [] reg = "SP" -> [Z EXCEPT !.sp = value]
      [] reg = "R" -> [Z EXCEPT !.r = value]
      [] reg = "F" -> [Z EXCEPT !.f = FlagRegister_set(value)]
      [] reg = "B" -> [Z EXCEPT !.bc = value * 256 + Lo8(@)]
      [] reg = "C" -> [Z EXCEPT !.bc = Hi8(@) * 256 + value]
      [] reg = "D" -> [Z EXCEPT !.de = value * 256 + Lo8(@)]
      [] reg = "E" -> [Z EXCEPT !.de = Hi8(@) * 256 + value]
      [] reg = "H" -> [Z EXCEPT !.hl = value * 256 + Lo8(@)]
      [] reg = "L" -> [Z EXCEPT !.hl = Hi8(@) * 256 + value]
      [] reg = "IX" -> [Z EXCEPT !.ix = value]
      [] reg = "IY" -> [Z EXCEPT !.iy = value]

swap_registers(Z, a, b) ==
    LET temp == get_register(Z, a)
    IN  set_register(set_register(Z, a, get_register(Z, b)), b, temp)

check_condition(Z, c) ==
    CASE c = "Always" -> TRUE
      [] c = "Z" -> Z.f.z
      [] c = "NZ" -> ~Z.f.z
      [] c = "C" -> Z.f.c
      [] c = "NC" -> ~Z.f.c
      [] c = "M" -> Z.f.s
      [] c = "P" -> ~Z.f.s
      [] c = "PE" -> Z.f.p_v
      [] c = "PO" -> ~Z.f.p_v

read_16(M, address) ==
    read_byte(M, address) + 256 * read_byte(M, U16(address + 1))

Observe16(M, address) == Observe(Observe(M, address), U16(address + 1))

(***************************************************************************)
(* z80/util.h: stack_pop<u8> reads at sp++, stack_pop<u16> pops the low    *)
(* byte and then the high byte.                                            *)
(***************************************************************************)
stack_pop_u8(X) ==
    [z |-> [X.z EXCEPT !.sp = U16(@ + 1)],
     m |-> Observe(X.m, X.z.sp),
     value |-> read_byte(X.m, X.z.sp)]

\* stack_pop<u16> taking the first byte popped as the high byte.
stack_pop_u16_high_first(X) ==
    LET hi == stack_pop_u8(X)
        lo == stack_pop_u8(hi)
    IN  [z |-> lo.z, m |-> lo.m, value |-> hi.value * 256 + lo.value]

stack_pop_u16(X) ==
    LET lo == stack_pop_u8(X)
        hi == stack_pop_u8(lo)
    IN  [z |-> hi.z, m |-> hi.m, value |-> hi.value * 256 + lo.value]

(***************************************************************************)
(* instructions.cpp: control flow.  instr_jr exists twice in the source:   *)
(* the copy at line 343 fetches the displacement before it tests the       *)
(* condition, the copy at line 3485 fetches it only when the condition     *)
(* holds.                                                                  *)
(***************************************************************************)
instr_jp(Z, M, c) ==
    LET address == read_16(M, Z.pc)
        Z1 == [Z EXCEPT !.pc = U16(@ + 2)]
    IN  Done(IF check_condition(Z1, c) THEN [Z1 EXCEPT !.pc = address] ELSE Z1,
             Observe16(M, Z.pc), 4)

instr_jr_copy2(Z, M, c) ==
    IF check_condition(Z, c)
    THEN LET offset == S8(read_byte(M, Z.pc))
         IN  Done([Z EXCEPT !.pc = U16(@ + 1 + offset + 65536)], Observe(M, Z.pc), 12)
    ELSE Done(Z, M, 7)

instr_jr(Z, M, c) ==
    LET offset == S8(read_byte(M, Z.pc))
        Z1 == [Z EXCEPT !.pc = U16(@ + 1)]
    IN  IF check_condition(Z1, c)
        THEN Done([Z1 EXCEPT !.pc = U16(@ + offset + 65536)], Observe(M, Z.pc), 12)
        ELSE Done(Z1, Observe(M, Z.pc), 7)

\* CALL that pushes the address of the CALL itself.
instr_call_push_own_address(Z, M, c) ==
    LET address == read_16(M, Z.pc)
        M1 == Observe16(M, Z.pc)
        Z1 == [Z EXCEPT !.pc = U16(@ + 2)]
    IN  IF check_condition(Z1, c)
        THEN LET P == stack_push_u16([z |-> Z1, m |-> M1], U16(Z.pc + 65535))
             IN  Done([P.z EXCEPT !.pc = address], P.m, 17)
        ELSE Done(Z1, M1, 10)

instr_call(Z, M, c) ==
    LET address == read_16(M, Z.pc)
        M1 == Observe16(M, Z.pc)
        Z1 == [Z EXCEPT !.pc = U16(@ + 2)]
    IN  IF check_condition(Z1, c)
        THEN LET P == stack_push_u16([z |-> Z1, m |-> M1], Z1.pc)
             IN  Done([P.z EXCEPT !.pc = address], P.m, 17)
        ELSE Done(Z1, M1, 10)

instr_ret(Z, M, c) ==
    IF check_condition(Z, c)
    THEN LET P == stack_pop_u16([z |-> Z, m |-> M])
         IN  Done([P.z EXCEPT !.pc = P.value], P.m, IF c = "Always" THEN 10 ELSE 11)
    ELSE Done(Z, M, 5)

instr_push(Z, M, reg) ==
    LET P == stack_push_u16([z |-> Z, m |-> M], get_register(Z, reg))
    IN  Done(P.z, P.m, 11)

instr_pop(Z, M, reg) ==
    LET P == stack_pop_u16([z |-> Z, m |-> M])
    IN  Done(set_register(P.z, reg, P.value), P.m, 10)

instr_rst(Z, M, offset) ==
    LET P == stack_push_u16([z |-> Z, m |-> M], Z.pc)
    IN  Done([P.z EXCEPT !.pc = offset], P.m, 11)

(***************************************************************************)
(* instructions.cpp: the exchanges and LD between registers.               *)
(***************************************************************************)
instr_ex_af(Z, M) == Done(swap_registers(Z, "AF", "AF_"), M, 4)

\* EXX that leaves HL and HL' alone.
instr_exx_bc_de_only(Z, M) ==
    Done(swap_registers(swap_registers(Z, "BC", "BC_"), "DE", "DE_"), M, 4)

instr_exx(Z, M) ==
    Done(swap_registers(swap_registers(swap_registers(Z, "BC", "BC_"),
                                       "DE", "DE_"), "HL", "HL_"), M, 4)

instr_ex_de_hl(Z, M) == Done(swap_registers(Z, "DE", "HL"), M, 4)

instr_ld(Z, M, dst, src) == Done(set_register(Z, dst, get_register(Z, src)), M, 4)

(***************************************************************************)
(* instructions.cpp: vflag_16, carry and the 16-bit arms of instr_adc and  *)
(* instr_sbc.  carry() takes its operands as u16 and returns bit `bit` of  *)
(* (a + b + c) ^ a ^ b.  ADC tests the 32-bit sum against zero; SBC adds   *)
(* the carry to the subtrahend before it masks or negates it; the u32     *)
(* ~subtrahend + 1 reaches vflag_16 as a u16, (2^16 - subtrahend) mod 2^16.*)
(***************************************************************************)
vflag_16(a, b, r) ==
    /\ Bit(U16(a), 15) = Bit(U16(b), 15)
    /\ Bit(U16(a), 15) # Bit(U16(r), 15)

carry(bit, a, b, c) ==
    LET result == U16(a) + U16(b) + B2N(c)
    IN  (Bit(result, bit) + Bit(U16(a), bit) + Bit(U16(b), bit)) % 2 = 1

instr_adc_16(Z, M, dst, src) ==
    LET op1 == get_register(Z, dst)
        op2 == get_register(Z, src)
        res == op1 + op2 + B2N(Z.f.c)
        Z1 == set_register(Z, dst, res % 65536)
    IN  Done([Z1 EXCEPT !.f = [z |-> (res = 0),
                               s |-> ((res % 65536) >= 32768),
                               p_v |-> vflag_16(op1, op2, res),
                               h |-> carry(12, op1, op2, Z.f.c),
                               n |-> FALSE,
                               c |-> carry(16, op1, op2, Z.f.c),
                               b3 |-> (Bit(res, 11) = 1),
                               b5 |-> (Bit(res, 13) = 1)]], M, 11)

instr_sbc_16(Z, M, dst, src) ==
    LET minuend == get_register(Z, dst)
        subtrahend == get_register(Z, src) + B2N(Z.f.c)
        result == (minuend + 131072 - subtrahend) % 65536
        Z1 == set_register(Z, dst, result)
    IN  Done([Z1 EXCEPT !.f = [c |-> (subtrahend > minuend),
                               n |-> TRUE,
                               p_v |-> vflag_16(minuend, U16(131072 - subtrahend), result),
                               h |-> ((minuend % 4096) < (subtrahend % 4096)),
                               b3 |-> (Bit(result, 11) = 1),
                               b5 |-> (Bit(result, 13) = 1),
                               z |-> (result = 0),
                               s |-> (result >= 32768)]], M, 15)

(***************************************************************************)
(* test/cpm_test.cpp: port_in (the BDOS call selected by register C) and   *)
(* port_out, and instructions.cpp: instr_in, instr_out<Immediate, A>.      *)
(* port_in reads memory[] directly; BDOS 9 prints from DE up to the first  *)
(* '$' and never returns when the 64 KiB hold none.                        *)
(***************************************************************************)
Dollar == 36

RECURSIVE bdos_string(_, _, _)
bdos_string(M, addr, k) ==
    IF k = 65536 THEN [text |-> <<>>, hang |-> TRUE]
    ELSE IF read_byte(M, addr) = Dollar THEN [text |-> <<>>, hang |-> FALSE]
    ELSE LET rest == bdos_string(M, U16(addr + 1), k + 1)
         IN  [text |-> <<read_byte(M, addr)>> \o rest.text, hang |-> rest.hang]

RECURSIVE ObserveRange(_, _, _)
ObserveRange(M, addr, n) ==
    IF n = 0 THEN M ELSE ObserveRange(Observe(M, addr), U16(addr + 1), n - 1)

cpm_port_in_fatal(Z) == Lo8(Z.bc) \notin {2, 9}

cpm_port_in(Z, M, port) ==
    LET syscall == Lo8(Z.bc)
        str == bdos_string(M, Z.de, 0)
    IN  CASE syscall = 9 ->
               [value |-> 255, m |-> ObserveRange(M, Z.de, Len(str.text) + 1),
                fatal |-> FALSE,
                fx |-> [NoFx EXCEPT !.port_in = port, !.print = str.text,
                                    !.hang = str.hang]]
          [] syscall = 2 ->
               [value |-> 255, m |-> M, fatal |-> FALSE,
                fx |-> [NoFx EXCEPT !.port_in = port, !.print = <<Lo8(Z.de)>>]]
          [] OTHER -> [value |-> 255, m |-> M, fatal |-> TRUE,
                       fx |-> [NoFx EXCEPT !.port_in = port]]

cpm_port_out(port, value) ==
    [NoFx EXCEPT !.port_out = port, !.out_value = value, !.quit = TRUE]

\* Bus::port_in as the z80.port_in handler (main.cpp): the value comes from
\* the VDP, whose own change (get_status) the host loop applies from fx.
sms_port_in(V, M, port) ==
    [value |-> port_in_value(V, port), m |-> M, fatal |-> port_in_fatal(port),
     fx |-> [NoFx EXCEPT !.port_in = port]]

\* The handler that set_port_handlers() installed: build.host names the
\* program, "cpm" for test/cpm_test.cpp and "sms" for main.cpp.
host_port_in(Z, M, port, build) ==
    IF build.host = "sms" THEN sms_port_in(build.vdp, M, port)
    ELSE [cpm_port_in(Z, M, port) EXCEPT !.fatal = cpm_port_in_fatal(Z)]

in_result(Z, H) ==
    IF H.fatal THEN [Fatal(Z, H.m) EXCEPT !.fx = H.fx]
    ELSE [Done([Z EXCEPT !.a = H.value], H.m, 4) EXCEPT !.fx = H.fx]

instr_in(Z, M, build) ==
    in_result([Z EXCEPT !.pc = U16(@ + 1)],
              host_port_in([Z EXCEPT !.pc = U16(@ + 1)], Observe(M, Z.pc),
                           read_byte(M, Z.pc), build))

instr_out(Z, M) ==
    LET port == read_byte(M, Z.pc)
        Z1 == [Z EXCEPT !.pc = U16(@ + 1)]
    IN  [Done(Z1, Observe(M, Z.pc), 4) EXCEPT !.fx = cpm_port_out(port, Z1.a)]

(***************************************************************************)
(* instructions.cpp: parity, vflag, and the rotates of the accumulator     *)
(* (rows 07, 0F, 17, 1F of instructions[]).                                *)
(***************************************************************************)
parity(value) ==
    (Bit(value, 0) + Bit(value, 1) + Bit(value, 2) + Bit(value, 3)
     + Bit(value, 4) + Bit(value, 5) + Bit(value, 6) + Bit(value, 7)) % 2 = 0

\* The u8 parameters truncate what the callers pass.
vflag(a, b, r) ==
    (Bit(U8(a), 7) = Bit(U8(b), 7)) /\ (Bit(U8(a), 7) # Bit(U8(r), 7))

rotl(value) == U8(value * 2) + Bit(value, 7)
rotr(value) == (value \div 2) + 128 * Bit(value, 0)

instr_rla(Z, M) ==
    Done([Z EXCEPT !.a = U8(Z.a * 2) + B2N(Z.f.c),
                   !.f.c = (Bit(Z.a, 7) = 1)], M, 4)

instr_rlca(Z, M) ==
    Done([Z EXCEPT !.a = rotl(Z.a),
                   !.f.c = (Bit(rotl(Z.a), 0) = 1),
                   !.f.n = FALSE, !.f.h = FALSE,
                   !.f.b3 = (Bit(rotl(Z.a), 3) = 1),
                   !.f.b5 = (Bit(rotl(Z.a), 5) = 1)], M, 4)

instr_rrca(Z, M) ==
    Done([Z EXCEPT !.a = rotr(Z.a),
                   !.f.c = (Bit(Z.a, 0) = 1),
                   !.f.n = FALSE, !.f.h = FALSE,
                   !.f.b3 = (Bit(rotr(Z.a), 3) = 1),
                   !.f.b5 = (Bit(rotr(Z.a), 5) = 1)], M, 4)

instr_rra(Z, M) ==
    Done([Z EXCEPT !.a = (Z.a \div 2) + 128 * B2N(Z.f.c),
                   !.f.c = (Bit(Z.a, 0) = 1)], M, 4)

(***************************************************************************)
(* instructions.cpp: DAA, and the 8-bit ADC / SBC with a memory or         *)
(* immediate operand (rows CE and DE take the byte after the opcode).      *)
(***************************************************************************)
\* read_value<src, u8>: the operand, the registers and the memory after it.
read_value_u8(Z, M, mode) ==
    CASE mode = "Immediate" ->
           [z |-> [Z EXCEPT !.pc = U16(@ + 1)], m |-> Observe(M, Z.pc),
            value |-> read_byte(M, Z.pc)]
      [] mode = "HL" ->
           [z |-> Z, m |-> Observe(M, Z.hl), value |-> read_byte(M, Z.hl)]

adc_result(V, dst, op1, op2, cin) ==
    [z |-> [set_register(V.z, dst, U8(op1 + op2 + B2N(cin))) EXCEPT
               !.f.z = (U8(op1 + op2 + B2N(cin)) = 0),
               !.f.s = (Bit(op1 + op2 + B2N(cin), 7) = 1),
               !.f.p_v = vflag(op1, op2, op1 + op2 + B2N(cin)),
               !.f.h = carry(4, op1, op2, cin),
               !.f.n = FALSE,
               !.f.c = carry(8, op1, op2, cin),
               !.f.b3 = (Bit(op1 + op2 + B2N(cin), 3) = 1),
               !.f.b5 = (Bit(op1 + op2 + B2N(cin), 5) = 1)],
     m |-> V.m]

instr_adc_8(Z, M, dst, mode) ==
    LET V == read_value_u8(Z, M, mode)
        R == adc_result(V, dst, get_register(Z, dst), V.value, Z.f.c)
    IN  Done(R.z, R.m, 11)

\* minuend, value and result are u8, subtrahend = value + carry a u16;
\* vflag receives ~value truncated to u8.
sbc_result(V, dst, minuend, value, cin) ==
    [z |-> [set_register(V.z, dst, U8(minuend + 512 - (value + B2N(cin)))) EXCEPT
               !.f.c = (value + B2N(cin) > minuend),
               !.f.n = TRUE,
               !.f.p_v = vflag(minuend, 255 - value,
                               U8(minuend + 512 - (value + B2N(cin)))),
               !.f.h = ((value % 16) + B2N(cin) > (minuend % 16)),
               !.f.b3 = (Bit(U8(minuend + 512 - (value + B2N(cin))), 3) = 1),
               !.f.b5 = (Bit(U8(minuend + 512 - (value + B2N(cin))), 5) = 1),
               !.f.z = (U8(minuend + 512 - (value + B2N(cin))) = 0),
               !.f.s = (Bit(U8(minuend + 512 - (value + B2N(cin))), 7) = 1)],
     m |-> V.m]

instr_sbc_8(Z, M, dst, mode) ==
    LET V == read_value_u8(Z, M, mode)
        R == sbc_result(V, dst, get_register(Z, dst), V.value, Z.f.c)
    IN  Done(R.z, R.m, 7)

\* The correction without its high-nibble part.
daa_offset_low_only(Z) == IF Z.f.h \/ (Z.a % 16) > 9 THEN 6 ELSE 0

\* The correction DAA applies: 0x06 when H is set or the low nibble is above
\* 9, plus 0x60 when C is set or A is above 0x99.
daa_offset(Z) ==
    (IF Z.f.h \/ (Z.a % 16) > 9 THEN 6 ELSE 0)
    + (IF Z.f.c \/ Z.a > 153 THEN 96 ELSE 0)

\* DAA that adds the correction whatever N says.
daa_adjust_add_only(Z) == U8(Z.a + daa_offset(Z))

daa_adjust(Z) ==
    IF Z.f.n THEN U8(Z.a + 256 - daa_offset(Z)) ELSE U8(Z.a + daa_offset(Z))

instr_daa(Z, M) ==
    Done([Z EXCEPT !.a = daa_adjust(Z),
                   !.f.c = (Z.f.c \/ Z.a > 153),
                   !.f.h = IF Z.f.n THEN Z.f.h /\ (Z.a % 16) < 6
                           ELSE (Z.a % 16) > 9,
                   !.f.s = (Bit(daa_adjust(Z), 7) = 1),
                   !.f.z = (daa_adjust(Z) = 0),
                   !.f.p_v = parity(daa_adjust(Z)),
                   !.f.b3 = (Bit(daa_adjust(Z), 3) = 1),
                   !.f.b5 = (Bit(daa_adjust(Z), 5) = 1)], M, 4)

(***************************************************************************)
(* instructions.cpp: the CB-prefixed rotates and shifts on a register, and *)
(* BIT on a register or on the byte at (HL), (IX+d), (IY+d).  Of the       *)
(* rotates and shifts only instr_rlc<Register> and instr_srl<Register>     *)
(* have a body; the others are logfatal().                                 *)
(***************************************************************************)
flags_rlc(Z, res) ==
    [Z EXCEPT !.f.s = (Bit(res, 0) = 1), !.f.z = (res = 0),
              !.f.p_v = parity(res), !.f.n = FALSE, !.f.h = FALSE,
              !.f.c = (Bit(res, 0) = 1),
              !.f.b3 = (Bit(res, 3) = 1), !.f.b5 = (Bit(res, 5) = 1)]

instr_rlc(Z, M, src) ==
    Done(flags_rlc(set_register(Z, src, rotl(get_register(Z, src))),
                   rotl(get_register(Z, src))), M, 8)

flags_srl(Z, value, res) ==
    [Z EXCEPT !.f.c = (Bit(value, 0) = 1), !.f.n = FALSE,
              !.f.p_v = parity(res), !.f.h = FALSE,
              !.f.s = (Bit(res, 7) = 1), !.f.z = (res = 0),
              !.f.b5 = (Bit(res, 5) = 1), !.f.b3 = (Bit(res, 3) = 1)]

instr_srl(Z, M, src) ==
    Done(flags_srl(set_register(Z, src, get_register(Z, src) \div 2),
                   get_register(Z, src), get_register(Z, src) \div 2), M, 8)

\* instr_rrc, instr_rl, instr_rr, instr_sla, instr_sra, instr_sll and the
\* memory forms of instr_rlc and instr_srl.
logfatal_instr(Z, M) == Fatal(Z, M)

\* get_address<src>: prev_immediate is the s8 displacement of DD CB / FD CB.
get_address(Z, mode) ==
    CASE mode = "HL" -> Z.hl
      [] mode = "IXPlusPrevious" -> U16(Z.ix + 65536 + Z.prev_immediate)
      [] mode = "IYPlusPrevious" -> U16(Z.iy + 65536 + Z.prev_immediate)

\* The flags of BIT; xy is where b3 and b5 are copied from.
flags_bit(Z, val, n, xy) ==
    [Z EXCEPT !.f.s = (n = 7 /\ Bit(val, n) = 1), !.f.z = (Bit(val, n) = 0),
              !.f.b5 = (Bit(xy, 5) = 1), !.f.h = TRUE,
              !.f.b3 = (Bit(xy, 3) = 1), !.f.p_v = (Bit(val, n) = 0),
              !.f.n = FALSE]

instr_bit_mem(Z, M, n, mode) ==
    Done(flags_bit(Z, read_byte(M, get_address(Z, mode)), n, get_address(Z, mode)),
         Observe(M, get_address(Z, mode)), 20)

instr_bit_reg(Z, M, n, src) ==
    Done(flags_bit(Z, get_register(Z, src), n, get_register(Z, src)), M, 20)

(***************************************************************************)
(* instructions.cpp: OUTI / OTIR and LDD / LDDR.                           *)
(***************************************************************************)
instr_outi(Z, M) ==
    [Done(set_register([Z EXCEPT !.hl = U16(@ + 1)], "B",
                       U8(get_register(Z, "B") + 255)),
          Observe(M, Z.hl), 16)
       EXCEPT !.fx = cpm_port_out(get_register(Z, "C"), read_byte(M, Z.hl))]

\* OTIR that never repeats.
otir_repeat_never(O) == O

otir_repeat(O) ==
    IF get_register(O.z, "B") # 0
    THEN [O EXCEPT !.z.pc = U16(@ + 65534), !.cycles = @ + 5]
    ELSE O

instr_otir(Z, M) == otir_repeat(instr_outi(Z, M))

instr_ldd(Z, M) ==
    LET value == read_byte(M, Z.hl)
        bc1 == U16(Z.bc + 65535)
        r == U8(value + Z.a)
    IN  Done([Z EXCEPT !.hl = U16(@ + 65535), !.de = U16(@ + 65535), !.bc = bc1,
                       !.f.n = FALSE, !.f.h = FALSE, !.f.p_v = (bc1 > 0),
                       !.f.b3 = (Bit(r, 3) = 1), !.f.b5 = (Bit(r, 1) = 1)],
             write_byte(Observe(M, Z.hl), Z.de, value), 16)

\* The repeat of LDIR / LDDR rewinding PC past the ED prefix by one byte only.
block_repeat_rewind_1(L) ==
    IF L.z.bc # 0 THEN Done([L.z EXCEPT !.pc = U16(@ + 65535)], L.m, 21) ELSE L

block_repeat(L) ==
    IF L.z.bc # 0 THEN Done([L.z EXCEPT !.pc = U16(@ + 65534)], L.m, 21) ELSE L

instr_lddr(Z, M) == block_repeat(instr_ldd(Z, M))

(***************************************************************************)
(* The rows of the opcode tables that this model executes.  instr_ed,      *)
(* instr_dd and instr_fd fetch the second opcode byte at pc and dispatch   *)
(* on it.  ed_instructions has 0xC0 entries and is indexed with the byte   *)
(* as fetched: an index from 0xC0 up reads past the table, and the call    *)
(* through what lies there either ends the process without a diagnostic    *)
(* ("crash") or runs some handler of the neighbouring tables ("handler",   *)
(* here the one of NOP).  `build` is what the source leaves to the build:  *)
(* build.ed, the outcome of such a call, and build.copy, which of the two  *)
(* copies of instr_jr is compiled.                                         *)
(***************************************************************************)
EdTableSize == 192
EdUBOutcomes == {"crash", "handler"}
SourceCopies == {1, 2}

\* Rows C0..FF of instructions[]: the condition of the RET / CALL in the row.
RowCondition(opcode) ==
    CASE (opcode \div 8) % 8 = 0 -> "NZ"
      [] (opcode \div 8) % 8 = 1 -> "Z"
      [] (opcode \div 8) % 8 = 2 -> "NC"
      [] (opcode \div 8) % 8 = 3 -> "C"
      [] (opcode \div 8) % 8 = 4 -> "PO"
      [] (opcode \div 8) % 8 = 5 -> "PE"
      [] (opcode \div 8) % 8 = 6 -> "P"
      [] (opcode \div 8) % 8 = 7 -> "M"

\* Rows 18, 20, 28, 30, 38: the condition of the JR in the row.
JrCondition(opcode) ==
    CASE opcode = 24 -> "Always"
      [] opcode = 32 -> "NZ"
      [] opcode = 40 -> "Z"
      [] opcode = 48 -> "NC"
      [] opcode = 56 -> "C"

\* ED 42 .. ED 7A: the register pair of the SBC / ADC HL,rr in the row.
RowPair(opcode) ==
    CASE (opcode \div 16) % 4 = 0 -> "BC"
      [] (opcode \div 16) % 4 = 1 -> "DE"
      [] (opcode \div 16) % 4 = 2 -> "HL"
      [] (opcode \div 16) % 4 = 3 -> "SP"

\* Rows of cb_instructions[]: the register operand of the row, or "(HL)".
RowRegister(opcode) ==
    CASE opcode % 8 = 0 -> "B"
      [] opcode % 8 = 1 -> "C"
      [] opcode % 8 = 2 -> "D"
      [] opcode % 8 = 3 -> "E"
      [] opcode % 8 = 4 -> "H"
      [] opcode % 8 = 5 -> "L"
      [] opcode % 8 = 6 -> "(HL)"
      [] opcode % 8 = 7 -> "A"

\* cb_instructions[]: rows 00..7F (rotates, shifts and BIT).
cb_instructions(Z, M, opcode) ==
    CASE opcode \in 0..7 /\ opcode # 6 -> instr_rlc(Z, M, RowRegister(opcode))
      [] opcode \in 56..63 /\ opcode # 62 -> instr_srl(Z, M, RowRegister(opcode))
      [] opcode \in (8..55) \cup {6, 62} -> logfatal_instr(Z, M)
      [] opcode \in 64..127 /\ opcode % 8 = 6 ->
           instr_bit_mem(Z, M, (opcode - 64) \div 8, "HL")
      [] opcode \in 64..127 /\ opcode % 8 # 6 ->
           instr_bit_reg(Z, M, (opcode - 64) \div 8, RowRegister(opcode))

instr_cb(Z, M) ==
    cb_instructions([Z EXCEPT !.pc = U16(@ + 1)], Observe(M, Z.pc), read_byte(M, Z.pc))

\* ddcb_instructions[] / fdcb_instructions[]: rows 40..7F are BIT n on the
\* indexed byte, whatever the register field of the row.
xxcb_instructions(Z, M, opcode, mode) ==
    CASE opcode \in 64..127 -> instr_bit_mem(Z, M, (opcode - 64) \div 8, mode)

\* instr_ddcb / instr_fdcb: the displacement comes before the opcode.
instr_xxcb(Z, M, mode) ==
    xxcb_instructions([Z EXCEPT !.prev_immediate = S8(read_byte(M, Z.pc)),
                                !.pc = U16(@ + 2)],
                      Observe16(M, Z.pc), read_byte(M, U16(Z.pc + 1)), mode)

ed_index_oob(Z, M) ==
    read_byte(M, Z.pc) = 237 /\ read_byte(M, U16(Z.pc + 1)) >= EdTableSize

ed_instructions(Z, M, build) ==
    LET opcode == read_byte(M, Z.pc)
        Z1 == [Z EXCEPT !.pc = U16(@ + 1)]
    IN  CASE opcode = 86 -> instr_im_1(Z1, M)
          [] opcode = 176 -> instr_ldir(Z1, M)
          [] opcode = 191 -> unimplemented_instr(Z1, M)
          [] opcode = 79 -> instr_ld(Z1, M, "R", "A")
          [] opcode = 179 -> instr_otir(Z1, M)
          [] opcode = 184 -> instr_lddr(Z1, M)
          [] opcode \in {66, 82, 98, 114} -> instr_sbc_16(Z1, M, "HL", RowPair(opcode))
          [] opcode \in {74, 90, 106, 122} -> instr_adc_16(Z1, M, "HL", RowPair(opcode))
          [] opcode >= EdTableSize ->
               IF build.ed = "crash" THEN Fatal(Z1, M) ELSE instr_nop(Z1, M)

\* fd_instructions: FD 00 is instructions[0x00]; FD DD and FD FD are
\* unimplemented_fd_instr.
fd_instructions(Z, M) ==
    LET opcode == read_byte(M, Z.pc)
        Z1 == [Z EXCEPT !.pc = U16(@ + 1)]
    IN  CASE opcode = 0 -> instr_nop(Z1, M)
          [] opcode = 221 -> unimplemented_instr(Z1, M)
          [] opcode = 253 -> unimplemented_instr(Z1, M)
          [] opcode = 203 -> instr_xxcb(Z1, M, "IYPlusPrevious")

\* dd_instructions: DD DD is unimplemented_dd_instr; DD FD is
\* instructions[0xFD], that is instr_fd.
dd_instructions(Z, M) ==
    LET opcode == read_byte(M, Z.pc)
        Z1 == [Z EXCEPT !.pc = U16(@ + 1)]
    IN  CASE opcode = 221 -> unimplemented_instr(Z1, M)
          [] opcode = 253 -> fd_instructions(Z1, M)
          [] opcode = 203 -> instr_xxcb(Z1, M, "IXPlusPrevious")

instructions(Z, M, opcode, build) ==
    CASE opcode = 0 -> instr_nop(Z, M)
      [] opcode = 243 -> instr_di(Z, M)
      [] opcode = 251 -> instr_ei(Z, M)
      [] opcode = 237 -> ed_instructions(Z, M, build)
      [] opcode = 221 -> dd_instructions(Z, M)
      [] opcode = 253 -> fd_instructions(Z, M)
      [] opcode = 118 -> unimplemented_instr(Z, M)
      [] opcode = 8 -> instr_ex_af(Z, M)
      [] opcode = 217 -> instr_exx(Z, M)
      [] opcode = 235 -> instr_ex_de_hl(Z, M)
      [] opcode \in {24, 32, 40, 48, 56} ->
           IF build.copy = 2 THEN instr_jr_copy2(Z, M, JrCondition(opcode))
           ELSE instr_jr(Z, M, JrCondition(opcode))
      [] opcode = 195 -> instr_jp(Z, M, "Always")
      [] opcode = 205 -> instr_call(Z, M, "Always")
      [] opcode \in {196, 204, 212, 220, 228, 236, 244, 252} ->
           instr_call(Z, M, RowCondition(opcode))
      [] opcode = 201 -> instr_ret(Z, M, "Always")
      [] opcode \in {192, 200, 208, 216, 224, 232, 240, 248} ->
           instr_ret(Z, M, RowCondition(opcode))
      [] opcode = 199 -> unimplemented_instr(Z, M)
      [] opcode \in {207, 215, 223, 231, 239, 247, 255} -> instr_rst(Z, M, opcode - 199)
      [] opcode = 197 -> instr_push(Z, M, "BC")
      [] opcode = 209 -> instr_pop(Z, M, "DE")
      [] opcode = 219 -> instr_in(Z, M, build)
      [] opcode = 211 -> instr_out(Z, M)
      [] opcode = 7 -> instr_rlca(Z, M)
      [] opcode = 15 -> instr_rrca(Z, M)
      [] opcode = 23 -> instr_rla(Z, M)
      [] opcode = 31 -> instr_rra(Z, M)
      [] opcode = 39 -> instr_daa(Z, M)
      [] opcode = 203 -> instr_cb(Z, M)
      [] opcode = 206 -> instr_adc_8(Z, M, "A", "Immediate")
      [] opcode = 222 -> instr_sbc_8(Z, M, "A", "Immediate")

\* The instructions above, as the byte sequences a program file may hold.
\* 0x76 is a row of the table that is unimplemented (exit).
InstrBytes ==
    {<<0>>, <<243>>, <<251>>, <<237, 86>>, <<237, 176>>, <<118>>,
     <<237, 191>>, <<237, 192>>, <<237, 255>>,
     <<221, 221>>, <<221, 253, 0>>, <<253, 221>>, <<253, 253>>, <<237, 79>>}

(***************************************************************************)
(* z80.cpp: step.  Returns the machine after the instruction (`mid`), the  *)
(* machine the call leaves (`z`, `m`), the T-states and the exit flag.     *)
(***************************************************************************)
\* The refresh counter counting over all eight bits.
refresh_8bit(r) == U8(r + 1)

\* z80.cpp 62-63: r_hi | ((r + 1) & 0x7F).
refresh(r) == ((r \div 128) * 128) + ((r + 1) % 128)

\* z80.cpp 66-70: after the handler has returned R, an enabled pending
\* interrupt is serviced before step() returns.
step_after_instruction(Z, M, R) ==
    LET take == R.z.interrupts_enabled /\ R.z.interrupt_pending
        S == IF ~R.fatal /\ take THEN service_interrupt(R) ELSE R
    IN  [z |-> S.z, m |-> S.m, cycles |-> R.cycles, mid |-> R.z, fx |-> R.fx,
         serviced |-> (~R.fatal /\ take), oob |-> ed_index_oob(Z, M),
         fatal |-> (R.fatal \/ (take /\ service_interrupt_fatal(R.z)))]

Z80_step(Z, M, build) ==
    step_after_instruction(Z, M,
        instructions([Z EXCEPT !.interrupts_enabled = Z.next_interrupts_enabled,
                               !.pc = U16(@ + 1),
                               !.instructions = @ + 1,
                               !.r = refresh(@)],
                     M, read_byte(M, Z.pc), build))

\* z80.cpp: raise_interrupt.
raise_interrupt(Z) == [Z EXCEPT !.interrupt_pending = TRUE]

(***************************************************************************)
(* Bookkeeping values.  io records the last completed control pair (its    *)
(* address A and code) and how many data-port accesses followed it, all    *)
(* writes ("w"), all reads ("r") or both ("mixed").                        *)
(***************************************************************************)
NoPrev == [op |-> "none"]
NoStep == [op |-> "none", port |-> 0, ret |-> 0, prev |-> NoPrev]
NoIo == [valid |-> FALSE, A |-> 0, code |-> 0, n |-> 0, kind |-> "none"]
NoBlk == [valid |-> FALSE]
NoGhost == [nw |-> 0, cycles |-> 0, steps |-> 0, resets |-> 0, copy |-> 1]

\* test/cpm_test.cpp: should_quit = false at program start; nothing printed,
\* the process running (exit_code -1) and not stuck in a print loop.
HarnessStatic == [should_quit |-> FALSE, out |-> <<>>, hung |-> FALSE, exit_code |-> -1]

(***************************************************************************)
(* SpecVdpIo: main() has called Z80::reset() and Vdp::reset(); the guest   *)
(* then performs OUT / IN on the VDP ports.  The first byte of a control   *)
(* pair is drawn from LowBytes, the second from HighBytes: together they   *)
(* reach both ends of the 14-bit address range, all four command codes,    *)
(* and CRAM addresses on both sides of the 32-byte array.                  *)
(***************************************************************************)
LowBytes == {0, 255}
HighBytes == {0, 63, 127, 134, 192, 255}
DataBytes == {90, 195}

InitVdp ==
    /\ vdp = Vdp_reset(VdpStatic)
    /\ z80 = Z80_reset
    /\ memory = <<>>
    /\ bus = BusStatic
    /\ aborted = FALSE
    /\ last = NoStep
    /\ io = NoIo
    /\ blk = NoBlk
    /\ ghost = NoGhost
    /\ harness = HarnessStatic

IoKind(k) == IF io.kind \in {"none", k} THEN k ELSE "mixed"

IoAfterOut(port, value) ==
    CASE port = 191 /\ vdp.ctrl_high ->
           [valid |-> TRUE, A |-> write_control_latch(vdp, value).address,
            code |-> write_control_latch(vdp, value).code,
            n |-> 0, kind |-> "none"]
      [] port = 191 /\ ~vdp.ctrl_high -> NoIo
      [] port = 190 /\ io.valid -> [io EXCEPT !.n = @ + 1, !.kind = IoKind("w")]
      [] OTHER -> io

IoAfterIn(port) ==
    IF port % 2 = 0 /\ io.valid
    THEN [io EXCEPT !.n = @ + 1, !.kind = IoKind("r")]
    ELSE io

\* The guest executes OUT (port), value.
PortOut(port, value, ub) ==
    /\ ~aborted
    /\ last' = [op |-> "port_out", port |-> port, ret |-> 0, prev |-> NoPrev]
    /\ io' = IoAfterOut(port, value)
    /\ aborted' = port_out_fatal(vdp, port, value)
    /\ vdp' = port_out(vdp, port, value, ub)
    /\ UNCHANGED <<harness, z80, memory, bus, blk>>

\* The guest executes IN A, (port).
PortIn(port) ==
    /\ ~aborted
    /\ last' = [op |-> "port_in", port |-> port, ret |-> port_in_value(vdp, port),
                prev |-> NoPrev]
    /\ io' = IoAfterIn(port)
    /\ aborted' = port_in_fatal(port)
    /\ vdp' = port_in(vdp, port)
    /\ UNCHANGED <<harness, z80, memory, bus, blk>>

DataOut ==
    /\ ghost.nw < MaxDataWrites
    /\ ghost' = [ghost EXCEPT !.nw = @ + 1]
    /\ \E value \in DataBytes, ub \in UBOutcomes : PortOut(190, value, ub)

ControlOut ==
    /\ UNCHANGED ghost
    /\ \E value \in (IF vdp.ctrl_high THEN HighBytes ELSE LowBytes) :
          PortOut(191, value, "screen")

DataIn ==
    /\ io.n < MaxDataReads
    /\ UNCHANGED ghost
    /\ PortIn(190)

StatusIn ==
    /\ UNCHANGED ghost
    /\ PortIn(191)

NextVdpIo == DataOut \/ ControlOut \/ DataIn \/ StatusIn

SpecVdpIo == InitVdp /\ [][NextVdpIo]_vars

(***************************************************************************)
(* SpecVdpReset: the port traffic of SpecVdpIo, with the host calling      *)
(* Vdp::reset() again at any point of it.                                  *)
(***************************************************************************)
MaxResets == 1

ResetVdp ==
    /\ ~aborted
    /\ ghost.resets < MaxResets
    /\ vdp' = Vdp_reset(vdp)
    /\ last' = [op |-> "vdp_reset", port |-> 0, ret |-> 0, prev |-> NoPrev]
    /\ io' = NoIo
    /\ ghost' = [ghost EXCEPT !.resets = @ + 1]
    /\ UNCHANGED <<harness, z80, memory, bus, aborted, blk>>

NextVdpReset == DataOut \/ ControlOut \/ DataIn \/ StatusIn \/ ResetVdp

SpecVdpReset == InitVdp /\ [][NextVdpReset]_vars

(***************************************************************************)
(* SpecVdpTiming: after the resets, the guest programs the VDP registers   *)
(* through the control port (registers 0, 1 and 0xA) and the host calls    *)
(* Vdp::step(cycles).  The cycle arguments are one scanline and one whole  *)
(* frame.                                                                  *)
(***************************************************************************)
FrameCycles == cycles_per_line * num_scanlines
TimingLowBytes == {0, 6, 38}
TimingHighBytes == {128, 129, 138}
CycleChoices == {cycles_per_line, FrameCycles}

TimingControlOut ==
    /\ UNCHANGED ghost
    /\ \E value \in (IF vdp.ctrl_high THEN TimingHighBytes ELSE TimingLowBytes) :
          PortOut(191, value, "screen")

VdpStep ==
    \E cycles \in CycleChoices :
        /\ ~aborted
        /\ ghost.cycles + cycles <= MaxFrames * FrameCycles
        /\ ghost' = [ghost EXCEPT !.cycles = @ + cycles]
        /\ aborted' = Vdp_step_fatal(vdp, cycles)
        /\ vdp' = Vdp_step(vdp, cycles)
        /\ last' = [op |-> "vdp_step", port |-> 0, ret |-> 0, prev |-> NoPrev]
        /\ UNCHANGED <<harness, z80, memory, bus, io, blk>>

NextVdpTiming == TimingControlOut \/ VdpStep

SpecVdpTiming == InitVdp /\ [][NextVdpTiming]_vars

(***************************************************************************)
(* SpecCpu: a host owning the flat memory calls Z80::step() and, between   *)
(* steps, Z80::raise_interrupt().  The run starts as test/cpm_test.cpp     *)
(* starts it (reset, PC = 0x0100); BC, DE, HL and SP hold values a program *)
(* has loaded with LD rr,nn before the part of the run explored here.      *)
(* The values make the block copy run across 0xFFFF -> 0x0000, overlap its *)
(* source, and make the stack wrap below 0x0000.                           *)
(***************************************************************************)
BCChoices == 1..MaxBlock
HLChoices == {512, 65535}
DEChoices == {768, 513}
SPChoices == {65535, 1}

InitCpu ==
    /\ vdp = Vdp_reset(VdpStatic)
    /\ \E bc \in BCChoices, hl \in HLChoices, de \in DEChoices, sp \in SPChoices :
          z80 = [Z80_reset EXCEPT !.pc = LoadAddress, !.bc = bc, !.hl = hl,
                                  !.de = de, !.sp = sp]
    /\ memory = <<>>
    /\ bus = BusStatic
    /\ aborted = FALSE
    /\ last = NoStep
    /\ io = NoIo
    /\ blk = NoBlk
    /\ ghost = NoGhost
    /\ harness = HarnessStatic

\* The program file may hold `bytes` at `address`: every cell is either
\* still open (in the file area, not yet fixed) or already holds the byte.
CanHold(M, address, bytes) ==
    \A k \in 1..Len(bytes) :
        LET a == U16(address + k - 1)
        IN  IF a \in DOMAIN M THEN M[a] = bytes[k]
            ELSE a >= LoadAddress \/ MemDefault(a) = bytes[k]

RECURSIVE Place(_, _, _)
Place(M, address, bytes) ==
    IF bytes = <<>> THEN M
    ELSE Place(write_byte(M, address, Head(bytes)), U16(address + 1), Tail(bytes))

InstrName(bytes) ==
    CASE bytes = <<0>> -> "nop"
      [] bytes = <<243>> -> "di"
      [] bytes = <<251>> -> "ei"
      [] bytes = <<237, 86>> -> "im1"
      [] bytes = <<237, 176>> -> "ldir"
      [] bytes = <<118>> -> "halt"
      [] bytes = <<237, 191>> -> "ed_bf"
      [] bytes = <<237, 192>> -> "ed_c0"
      [] bytes = <<237, 255>> -> "ed_ff"
      [] bytes = <<221, 221>> -> "dd_dd"
      [] bytes = <<221, 253, 0>> -> "dd_fd"
      [] bytes = <<253, 221>> -> "fd_dd"
      [] bytes = <<253, 253>> -> "fd_fd"
      [] bytes = <<237, 79>> -> "ld_r_a"
      [] bytes[1] = 8 -> "ex_af"
      [] bytes[1] = 217 -> "exx"
      [] bytes[1] = 235 -> "ex_de_hl"
      [] bytes[1] \in {24, 32, 40, 48, 56} -> "jr"
      [] bytes[1] = 195 -> "jp"
      [] bytes[1] \in {196, 204, 205, 212, 220, 228, 236, 244, 252} -> "call"
      [] bytes[1] \in {192, 200, 201, 208, 216, 224, 232, 240, 248} -> "ret"
      [] bytes[1] \in {199, 207, 215, 223, 231, 239, 247, 255} -> "rst"
      [] bytes[1] = 197 -> "push_bc"
      [] bytes[1] = 209 -> "pop_de"
      [] bytes[1] = 219 -> "in"
      [] bytes[1] = 211 -> "out"
      [] bytes[1] = 237 /\ bytes[2] \in {74, 90, 106, 122} -> "adc_hl"
      [] bytes[1] = 237 /\ bytes[2] \in {66, 82, 98, 114} -> "sbc_hl"
      [] bytes[1] \in {7, 15, 23, 31} -> "rot_a"
      [] bytes[1] = 39 -> "daa"
      [] bytes[1] = 206 -> "adc_n"
      [] bytes[1] = 222 -> "sbc_n"
      [] bytes[1] = 203 /\ bytes[2] < 64 -> "cb_rot"
      [] bytes[1] = 203 /\ bytes[2] \in 64..127 -> "bit"
      [] bytes[1] \in {221, 253} /\ bytes[2] = 203 -> "bit_xy"
      [] bytes[1] = 237 /\ bytes[2] = 179 -> "otir"
      [] bytes[1] = 237 /\ bytes[2] = 184 -> "lddr"

\* The source bytes of a block copy of n bytes starting at hl.
SourceBytes(M, hl, n) == [k \in 1..n |-> read_byte(M, U16(hl + k - 1))]

\* The LDIR run after a step that executed `name` at pc0 from machine Z, M
\* and left result S.
BlkAfter(name, Z, M, S) ==
    IF name # "ldir" \/ S.fatal THEN NoBlk
    ELSE IF blk.valid /\ blk.pc = Z.pc /\ blk.k < blk.n /\ ~blk.interrupted
         THEN [blk EXCEPT !.k = @ + 1, !.interrupted = S.serviced]
         ELSE IF Z.bc \in 1..MaxBlock
              THEN [valid |-> TRUE, pc |-> Z.pc, n |-> Z.bc, hl |-> Z.hl,
                    de |-> Z.de, src |-> SourceBytes(M, Z.hl, Z.bc), k |-> 1,
                    interrupted |-> S.serviced]
              ELSE NoBlk

\* What the step did: the instruction, the registers before the call
\* (pc0, sp0 and the three interrupt flags), the registers after the
\* instruction and before any interrupt service (mid), the T-states
\* returned, and the same summary of the step before it.
StepSummary(name, Z, S, prev) ==
    [op |-> "z80_step", port |-> 0, ret |-> S.cycles, prev |-> prev, instr |-> name,
     pc0 |-> Z.pc, sp0 |-> Z.sp, mode0 |-> Z.interrupt_mode,
     ie0 |-> Z.interrupts_enabled, nie0 |-> Z.next_interrupts_enabled,
     pend0 |-> Z.interrupt_pending,
     pc1 |-> S.mid.pc, sp1 |-> S.mid.sp, mode1 |-> S.mid.interrupt_mode,
     ie1 |-> S.mid.interrupts_enabled, pend1 |-> S.mid.interrupt_pending,
     instr_fatal |-> (S.fatal /\ ~S.serviced), serviced |-> S.serviced,
     oob |-> S.oob, r0 |-> Z.r, r1 |-> S.z.r]

\* The summary of the latest Z80::step() call, if any.
PrevStep ==
    CASE last.op = "z80_step" -> [last EXCEPT !.prev = NoPrev]
      [] last.op = "raise_interrupt" -> last.prev
      [] OTHER -> NoPrev

\* The host calls Z80::step(); the instruction at PC is one the file holds.
Step ==
    \E bytes \in InstrBytes :
        /\ ~aborted
        /\ ghost.steps < MaxSteps
        /\ CanHold(memory, z80.pc, bytes)
        /\ LET M == Place(memory, z80.pc, bytes)
           IN  \E ub \in (IF ed_index_oob(z80, M) THEN EdUBOutcomes ELSE {"crash"}) :
               LET S == Z80_step(z80, M, [ed |-> ub, copy |-> 1, host |-> "cpm"])
               IN  /\ z80' = S.z
                   /\ memory' = S.m
                   /\ aborted' = S.fatal
                   /\ blk' = BlkAfter(InstrName(bytes), z80, M, S)
                   /\ last' = StepSummary(InstrName(bytes), z80, S, PrevStep)
        /\ ghost' = [ghost EXCEPT !.steps = @ + 1]
        /\ UNCHANGED <<harness, vdp, bus, io>>

\* The host calls Z80::raise_interrupt().
RaiseInterrupt ==
    /\ ~aborted
    /\ z80' = raise_interrupt(z80)
    /\ last' = [op |-> "raise_interrupt", port |-> 0, ret |-> 0, prev |-> PrevStep]
    /\ UNCHANGED <<harness, vdp, memory, bus, aborted, io, blk, ghost>>

NextCpu == Step \/ RaiseInterrupt

SpecCpu == InitCpu /\ [][NextCpu]_vars

(***************************************************************************)
(* The specifications below step single instructions of a program and look *)
(* at the whole register file: `last` holds the instruction bytes, the     *)
(* registers and memory before the call (z0, m0), the registers after it   *)
(* (z1), the T-states and the exit flag, and the same for the step before. *)
(***************************************************************************)
RunSummary(bytes, Z, M, S, prev) ==
    [op |-> "z80_step", port |-> 0, ret |-> S.cycles, prev |-> prev,
     instr |-> InstrName(bytes), bytes |-> bytes, z0 |-> Z, m0 |-> M, z1 |-> S.z,
     fx |-> S.fx, fatal |-> S.fatal]

PrevRun == IF last.op = "z80_step" THEN [last EXCEPT !.prev = NoPrev] ELSE NoPrev

\* The host calls Z80::step(); the instruction at PC is one of `Bytes`; at
\* most `max` steps are explored.
RunStep(Bytes, max, copy) ==
    \E bytes \in Bytes :
        /\ ~aborted
        /\ ghost.steps < max
        /\ CanHold(memory, z80.pc, bytes)
        /\ LET M == Place(memory, z80.pc, bytes)
               S == Z80_step(z80, M, [ed |-> "crash", copy |-> copy, host |-> "cpm"])
           IN  /\ z80' = S.z
               /\ memory' = S.m
               /\ aborted' = S.fatal
               /\ last' = RunSummary(bytes, z80, M, S, PrevRun)
        /\ ghost' = [ghost EXCEPT !.steps = @ + 1]
        /\ UNCHANGED <<harness, vdp, bus, io, blk>>

(***************************************************************************)
(* SpecFlow: calls, returns, restarts, the stack and the exchanges, from   *)
(* the start of test/cpm_test.cpp (reset, PC = 0x0100) with F, SP, BC and  *)
(* the shadow registers as a program has set them before.  Each flag value *)
(* sets exactly one of Z, C, S, P/V; SP = 0 and SP = 1 make the stack wrap *)
(* below 0x0000.                                                           *)
(***************************************************************************)
MaxFlowSteps == 2

FlagChoices == {64, 1, 128, 4}
FlowSPChoices == {0, 1, 65535}
FlowBCChoices == {4660, 255}
CallTarget == 512

CallOpcodes == {196, 204, 205, 212, 220, 228, 236, 244, 252}
RetOpcodes == {192, 200, 201, 208, 216, 224, 232, 240, 248}
RstOpcodes == {199, 207, 215, 223, 231, 239, 247, 255}

FlowBytes ==
    {<<op, Lo8(CallTarget), Hi8(CallTarget)>> : op \in CallOpcodes}
    \cup {<<op>> : op \in RetOpcodes \cup RstOpcodes \cup {8, 217, 235, 197, 209}}

InitFlow ==
    /\ vdp = Vdp_reset(VdpStatic)
    /\ \E f \in FlagChoices, sp \in FlowSPChoices, bc \in FlowBCChoices :
          z80 = [Z80_reset EXCEPT !.pc = LoadAddress, !.f = FlagRegister_set(f),
                                  !.a = 90, !.sp = sp, !.bc = bc, !.de = 22136,
                                  !.hl = 39612, !.ix = 4369, !.iy = 8738,
                                  !.af_ = 13124, !.bc_ = 17476, !.de_ = 21845,
                                  !.hl_ = 26214]
    /\ memory = <<>>
    /\ bus = BusStatic
    /\ aborted = FALSE
    /\ last = NoStep
    /\ io = NoIo
    /\ blk = NoBlk
    /\ ghost = NoGhost
    /\ harness = HarnessStatic

FlowStep == RunStep(FlowBytes, MaxFlowSteps, 1)

NextFlow == FlowStep

SpecFlow == InitFlow /\ [][NextFlow]_vars

(***************************************************************************)
(* SpecJr: relative jumps, for either copy of instr_jr the build may hold  *)
(* (ghost.copy).  JP 0xFFFE takes the program to the top of memory, where  *)
(* a JR and its target wrap past 0xFFFF.                                   *)
(***************************************************************************)
JrOpcodes == {24, 32, 40, 48, 56}
Displacements == {0, 3, 127, 128, 254}
JrFlagChoices == {0, 64, 1}
HighAddress == 65534

JrBytes ==
    {<<op, e>> : op \in JrOpcodes, e \in Displacements}
    \cup {<<195, Lo8(HighAddress), Hi8(HighAddress)>>}

InitJr ==
    /\ vdp = Vdp_reset(VdpStatic)
    /\ \E f \in JrFlagChoices :
          z80 = [Z80_reset EXCEPT !.pc = LoadAddress, !.f = FlagRegister_set(f)]
    /\ memory = <<>>
    /\ bus = BusStatic
    /\ aborted = FALSE
    /\ last = NoStep
    /\ io = NoIo
    /\ blk = NoBlk
    /\ \E c \in SourceCopies : ghost = [NoGhost EXCEPT !.copy = c]
    /\ harness = HarnessStatic

JrStep == RunStep(JrBytes, MaxFlowSteps, ghost.copy)

NextJr == JrStep

SpecJr == InitJr /\ [][NextJr]_vars

(***************************************************************************)
(* SpecAlu: ADC HL,rr and SBC HL,rr on operands around the carry, half     *)
(* carry and sign boundaries, with the carry flag clear and set.           *)
(***************************************************************************)
MaxAluSteps == 1

AluValues == {0, 1, 4095, 4096, 32767, 32768, 61440, 65535}
AluBytes == {<<237, op>> : op \in {74, 90, 106, 122, 66, 82, 98, 114}}

InitAlu ==
    /\ vdp = Vdp_reset(VdpStatic)
    /\ \E hl \in AluValues, de \in AluValues, f \in {0, 1} :
          z80 = [Z80_reset EXCEPT !.pc = LoadAddress, !.f = FlagRegister_set(f),
                                  !.hl = hl, !.de = de, !.bc = 4660, !.sp = 65535]
    /\ memory = <<>>
    /\ bus = BusStatic
    /\ aborted = FALSE
    /\ last = NoStep
    /\ io = NoIo
    /\ blk = NoBlk
    /\ ghost = NoGhost
    /\ harness = HarnessStatic

AluStep == RunStep(AluBytes, MaxAluSteps, 1)

NextAlu == AluStep

SpecAlu == InitAlu /\ [][NextAlu]_vars

(***************************************************************************)
(* SpecCpm: the run loop of test/cpm_test.cpp.  One iteration steps the    *)
(* CPU (the reference CPU is not modelled), and the loop test that follows *)
(* ends the process with exit(0) once should_quit is set.  The program     *)
(* calls the BDOS stub at 0x0005 (IN A,(0); RET) with C = 2, 9 or another  *)
(* value, DE at a short '$'-terminated string, and ends with JP 0x0000 or  *)
(* with an OUT of its own.                                                 *)
(***************************************************************************)
MaxCpmSteps == 5

BdosEntry == 5
CpmCChoices == {2, 9, 7}
CpmStringAt == 283
CpmOutPorts == {0, 1}

CpmBytes ==
    {<<205, BdosEntry, 0>>, <<219, 0>>, <<201>>, <<195, 0, 0>>, <<0>>}
    \cup {<<211, port>> : port \in CpmOutPorts}

InitCpm ==
    /\ vdp = Vdp_reset(VdpStatic)
    /\ \E c \in CpmCChoices, sp \in {65535, 1} :
          z80 = [Z80_reset EXCEPT !.pc = LoadAddress, !.bc = c, !.de = CpmStringAt,
                                  !.sp = sp]
    /\ memory = <<>>
    /\ bus = BusStatic
    /\ aborted = FALSE
    /\ last = NoStep
    /\ io = NoIo
    /\ blk = NoBlk
    /\ ghost = NoGhost
    /\ harness = HarnessStatic

\* The two steps before the latest one.
PrevRun2 ==
    IF last.op = "z80_step"
    THEN [last EXCEPT !.prev = IF last.prev.op = "z80_step"
                               THEN [last.prev EXCEPT !.prev = NoPrev]
                               ELSE NoPrev]
    ELSE NoPrev

CpmIteration ==
    \E bytes \in CpmBytes :
        /\ ~aborted
        /\ harness.exit_code = -1 /\ ~harness.hung
        /\ ghost.steps < MaxCpmSteps
        /\ CanHold(memory, z80.pc, bytes)
        /\ LET M == Place(memory, z80.pc, bytes)
               S == Z80_step(z80, M, [ed |-> "crash", copy |-> 1, host |-> "cpm"])
               quit == harness.should_quit \/ S.fx.quit
           IN  /\ z80' = S.z
               /\ memory' = S.m
               /\ aborted' = S.fatal
               /\ last' = [RunSummary(bytes, z80, M, S, PrevRun2) EXCEPT
                              !.port = Len(harness.out)]
               /\ harness' = [should_quit |-> quit,
                              out |-> harness.out \o S.fx.print,
                              hung |-> S.fx.hang,
                              exit_code |-> IF ~S.fatal /\ ~S.fx.hang /\ quit
                                            THEN 0 ELSE -1]
        /\ ghost' = [ghost EXCEPT !.steps = @ + 1]
        /\ UNCHANGED <<vdp, bus, io, blk>>

NextCpm == CpmIteration

SpecCpm == InitCpm /\ [][NextCpm]_vars

(***************************************************************************)
(* SpecBus: main() has loaded the cartridge, run_mine() has tried to load  *)
(* the BIOS (found or not); the guest then reads and writes memory through *)
(* Bus::read_byte / Bus::write_byte and reprograms the memory enables      *)
(* through port 0x3E.  The addresses cover the three slots, RAM and its    *)
(* mirror and the mapper registers; the values written select banks inside *)
(* and outside the cartridge and every kind of mapper control byte.        *)
(***************************************************************************)
ReadAddrs == {0, 16385, 49151, 49152, 57340, 65532, 65534}
WriteAddrs == {0, 49151, 49152, 57342, 65532, 65533, 65534, 65535}
WriteVals == {1, 3, 128, 200}
EnableVals == {0, 8, 64, 72}

InitBus ==
    /\ vdp = Vdp_reset(VdpStatic)
    /\ z80 = Z80_reset
    /\ memory = <<>>
    /\ \E found \in BOOLEAN : bus = Bios_try_load(BusStatic, found)
    /\ aborted = FALSE
    /\ last = NoStep
    /\ io = NoIo
    /\ blk = NoBlk
    /\ ghost = NoGhost
    /\ harness = HarnessStatic

\* The guest reads memory.
BusRead ==
    \E address \in ReadAddrs :
      \E g \in (IF Bus_read_byte_ub(bus, address) THEN UBReadOutcomes ELSE {0}) :
        /\ ~aborted
        /\ aborted' = (g = -1)
        /\ last' = [op |-> "read_byte", address |-> address, value |-> 0,
                    ret |-> Bus_read_byte(bus, address, g),
                    ub |-> Bus_read_byte_ub(bus, address), prev |-> NoPrev]
        /\ UNCHANGED <<harness, vdp, z80, memory, bus, io, blk, ghost>>

\* The guest writes memory.
BusWrite ==
    \E address \in WriteAddrs, value \in WriteVals :
        /\ ~aborted
        /\ ghost.nw < MaxBusWrites
        /\ ghost' = [ghost EXCEPT !.nw = @ + 1]
        /\ aborted' = Bus_write_byte_fatal(bus, address, value)
        /\ bus' = Bus_write_byte(bus, address, value)
        /\ last' = [op |-> "write_byte", address |-> address, value |-> value,
                    ret |-> 0, ub |-> FALSE, prev |-> NoPrev]
        /\ UNCHANGED <<harness, vdp, z80, memory, io, blk>>

\* The guest executes OUT (0x3E), value.
EnablesOut ==
    \E value \in EnableVals :
        /\ ~aborted
        /\ bus' = update_memory_enables(bus, value)
        /\ last' = [op |-> "port_out", port |-> 62, ret |-> 0, prev |-> NoPrev]
        /\ UNCHANGED <<harness, vdp, z80, memory, aborted, io, blk, ghost>>

NextBus == BusRead \/ BusWrite \/ EnablesOut

SpecBus == InitBus /\ [][NextBus]_vars

(***************************************************************************)
(*                              Z80 claims                                 *)
(***************************************************************************)

\* The step summarised in `st` executed EI with interrupts disabled
\* (interrupts_enabled = next_interrupts_enabled = false), interrupt mode 1
\* and an interrupt already pending.
EiWhilePending(st) ==
    /\ st.op = "z80_step" /\ st.instr = "ei"
    /\ ~st.ie0 /\ ~st.nie0 /\ st.pend0 /\ st.mode0 = 1

\* The length in bytes of the modelled instructions.
InstrLength(name) ==
    CASE name \in {"nop", "di", "ei", "halt"} -> 1
      [] name = "dd_fd" -> 3
      [] OTHER -> 2

\* The 16-bit word stored little-endian at address a.
Word(M, a) == read_byte(M, a) + 256 * read_byte(M, U16(a + 1))

\* C1: the step that executes EI with interrupts disabled, mode 1 and an
\* interrupt pending does not service it (PC just past EI, SP untouched, the
\* interrupt still pending); the next step executes one further instruction
\* and, unless that instruction is DI, services the interrupt at its end,
\* pushing the PC that the instruction left.
C1_EiDelaysInterruptByOneInstruction ==
    /\ (~aborted /\ EiWhilePending(last)) =>
           /\ ~last.serviced
           /\ z80.pc = U16(last.pc0 + 1)
           /\ z80.sp = last.sp0
           /\ z80.interrupt_pending
    /\ (last.op = "z80_step" /\ EiWhilePending(last.prev) /\ ~last.instr_fatal) =>
           /\ last.pc0 = U16(last.prev.pc0 + 1)
           /\ last.serviced = (last.instr # "di")
           /\ last.instr # "di" =>
                 /\ ~aborted
                 /\ z80.pc = 56
                 /\ Word(memory, z80.sp) = last.pc1
                 /\ last.pc1 \in {U16(last.pc0 + InstrLength(last.instr)), last.pc0}
                 /\ last.pc1 = last.pc0 => (last.instr = "ldir" /\ z80.bc # 0)

\* C1 witness: EI was executed with an interrupt pending, then a NOP, and the
\* interrupt was serviced at the end of the NOP.
C1_Witness ==
    /\ ~aborted /\ last.op = "z80_step" /\ EiWhilePending(last.prev)
    /\ last.instr = "nop" /\ last.serviced /\ z80.pc = 56

\* C2: a step that finishes its instruction with interrupts_enabled and
\* interrupt_pending both true leaves, in interrupt mode 1, PC = 0x0038, SP
\* decreased by 2 (mod 2^16), the post-instruction PC little-endian at the
\* new SP and the three interrupt flags false; in any other mode it ends in
\* the fatal abort.
C2_InterruptService ==
    (last.op = "z80_step" /\ ~last.instr_fatal /\ last.ie1 /\ last.pend1) =>
        IF last.mode1 = 1
        THEN /\ ~aborted
             /\ z80.pc = 56
             /\ z80.sp = U16(last.sp1 + 65534)
             /\ Word(memory, z80.sp) = last.pc1
             /\ ~z80.interrupts_enabled
             /\ ~z80.next_interrupts_enabled
             /\ ~z80.interrupt_pending
        ELSE aborted

\* C2 witness: an interrupt serviced in mode 1 with the stack wrapping below
\* address 0 (SP = 0x0001 before, 0xFFFF after).
C2_Witness ==
    /\ ~aborted /\ last.op = "z80_step" /\ last.serviced
    /\ last.mode1 = 1 /\ last.sp1 = 1 /\ z80.sp = 65535

\* Source and destination of the block copy do not overlap.
BlkCells(start, n) == {U16(start + k) : k \in 0..(n - 1)}
BlkDisjoint == BlkCells(blk.hl, blk.n) \cap BlkCells(blk.de, blk.n) = {}

\* A run of steps on one LDIR instruction, started with BC = n >= 1 over
\* non-overlapping source and destination, no interrupt taken so far.
LdirRun ==
    /\ ~aborted /\ last.op = "z80_step" /\ last.instr = "ldir"
    /\ blk.valid /\ ~blk.interrupted /\ blk.n >= 1 /\ BlkDisjoint

\* C3: stepping an LDIR with BC = n >= 1 over non-overlapping source and
\* destination ends after exactly n steps: each of the first n-1 steps leaves
\* PC at the LDIR and returns 21 T-states; the n-th returns 16 and leaves PC
\* past the instruction, the destination equal to the source, BC = 0, HL and
\* DE advanced by n and P/V = N = H = 0.
C3_LdirCopiesBlock ==
    LdirRun =>
        /\ blk.k <= blk.n
        /\ blk.k < blk.n => (z80.pc = blk.pc /\ last.ret = 21)
        /\ blk.k = blk.n =>
              /\ z80.pc = U16(blk.pc + 2)
              /\ last.ret = 16
              /\ z80.bc = 0
              /\ z80.hl = U16(blk.hl + blk.n)
              /\ z80.de = U16(blk.de + blk.n)
              /\ ~z80.f.p_v /\ ~z80.f.n /\ ~z80.f.h
              /\ \A k \in 1..blk.n :
                    read_byte(memory, U16(blk.de + k - 1)) = blk.src[k]

\* C3 witness: a completed two-byte copy whose source runs across
\* 0xFFFF -> 0x0000.
C3_Witness ==
    /\ LdirRun /\ blk.n = 2 /\ blk.k = 2 /\ blk.hl = 65535
    /\ blk.src[1] # blk.src[2]

(***************************************************************************)
(*                              VDP claims                                 *)
(***************************************************************************)

\* A data-port write that continues a run of writes after a control pair
\* with the given code.
WriteInRun(code, value, ub) ==
    /\ io.valid /\ io.code = code /\ io.kind \in {"none", "w"}
    /\ PortOut(190, value, ub)

\* C4: after a control pair selecting code 1 (VRAM write) with address A, the
\* i-th following data-port write (i = 0, 1, ...) stores its byte at
\* vram[(A + i) mod 0x4000] and changes no other VRAM cell.
C4_VramWriteRun ==
    [][\A value \in DataBytes, ub \in UBOutcomes :
          WriteInRun(COMMAND_VRAM_WRITE, value, ub) =>
              vdp'.vram = VramSet(vdp.vram, (io.A + io.n) % VramSize, value)]_vars

\* C4 witness: two bytes written after a code-1 pair at A = 0x3FFF, the second
\* one having wrapped to cell 0.
C4_Witness ==
    /\ ~aborted
    /\ io.valid /\ io.code = COMMAND_VRAM_WRITE /\ io.kind = "w"
    /\ io.A = VramSize - 1 /\ io.n = 2
    /\ VramGet(vdp.vram, VramSize - 1) # 0
    /\ VramGet(vdp.vram, 0) # 0

\* C5: in every reachable state the VDP address latch is below 0x4000.
C5_AddressLatch14Bit == vdp.address < VramSize

\* C6: a data-port write with code 3 (CRAM write) stores value & 0x3F at
\* cram[address & 0x1F] for every latched address, writes nothing else, and
\* then increments the address.
C6_CramWriteMasked ==
    [][\A value \in DataBytes, ub \in UBOutcomes :
          (vdp.code = COMMAND_CRAM_WRITE /\ PortOut(190, value, ub)) =>
              /\ vdp'.cram = [vdp.cram EXCEPT ![vdp.address % CramSize] = value % 64]
              /\ vdp'.vram = vdp.vram
              /\ vdp'.address = (vdp.address + 1) % VramSize]_vars

\* C7: after every Vdp::step call that returns, 0 <= cycle_counter <
\* cycles_per_line and 0 <= vcounter < 262.
C7_CountersInRange ==
    (~aborted /\ last.op = "vdp_step") =>
        /\ 0 <= vdp.cycle_counter /\ vdp.cycle_counter < cycles_per_line
        /\ 0 <= vdp.vcounter /\ vdp.vcounter < num_scanlines

\* C8: in mode 4, once the cycle arguments of the Vdp::step calls sum to
\* cycles_per_line x 262, vcounter is back at the value it had before the
\* calls (0, the value left by reset), however the cycles were split.
C8_FrameOfCyclesRestoresVcounter ==
    (~aborted /\ last.op = "vdp_step" /\ vdp.mode \in {10, 11}
     /\ ghost.cycles = FrameCycles) =>
        vdp.vcounter = 0

\* C9: after any data-port access, a write to or a read from port 0xBE, the
\* control-port high/low latch is cleared.
C9_DataAccessClearsLatch ==
    (last.op \in {"port_out", "port_in"} /\ last.port = 190) => ~vdp.ctrl_high

\* C10: after a control pair with code 0 (VRAM read) and address A, the i-th
\* following read of the data port (i = 0, 1, ...) returns vram[(A + i) mod
\* 0x4000].
C10_ReadRunReturnsVram ==
    (io.valid /\ io.code = COMMAND_VRAM_READ /\ io.kind = "r"
     /\ last.op = "port_in" /\ last.port = 190) =>
        last.ret = VramGet(vdp.vram, (io.A + io.n - 1) % VramSize)

\* A Vdp::step call that runs scanline() in mode 4.
ScanlineInMode4 ==
    /\ ~aborted
    /\ last'.op = "vdp_step"
    /\ vdp.cycle_counter + (ghost'.cycles - ghost.cycles) >= cycles_per_line
    /\ vdp.mode \in {10, 11}

\* C11: in mode 4, scanline() with vcounter <= 192 and line_counter = 0
\* wraps line_counter to 0xFF and sets line_interrupt without aborting;
\* scanline() with vcounter > 192 reloads line_counter from register 0xA
\* and does not set line_interrupt.
C11_LineCounterUnderflow ==
    [][ScanlineInMode4 =>
          /\ (vdp.vcounter <= 192 /\ vdp.line_counter = 0) =>
                 (~aborted' /\ vdp'.line_counter = 255 /\ vdp'.line_interrupt)
          /\ vdp.vcounter > 192 =>
                 (/\ vdp'.line_counter = vdp.lc_reload
                  /\ vdp'.line_interrupt = vdp.line_interrupt)]_vars

\* C12: in mode 4, scanline() sets frame_interrupt exactly when it is
\* called with vcounter = 224 and bit 5 of VDP register 1 is set, whatever
\* register 0 holds; no other scanline sets frame_interrupt.
C12_FrameInterruptEnable ==
    [][(ScanlineInMode4 /\ ~aborted') =>
          vdp'.frame_interrupt =
             (\/ vdp.frame_interrupt
              \/ vdp.vcounter = 224 /\ Bit(vdp.vdpModeControl2, 5) = 1)]_vars

\* C13: get_status() returns (frame_interrupt << 7) | 0x1F from the flag
\* before the call and leaves frame_interrupt = line_interrupt = false, so
\* interrupt_pending() is false afterwards.
C13_GetStatus ==
    [][(~aborted /\ last'.op = "port_in" /\ last'.port = 191) =>
          /\ last'.ret = B2N(vdp.frame_interrupt) * 128 + 31
          /\ ~vdp'.frame_interrupt
          /\ ~vdp'.line_interrupt
          /\ ~interrupt_pending(vdp')]_vars

(***************************************************************************)
(*                              Bus claims                                 *)
(***************************************************************************)

\* The byte the BIOS contributes to a read below 0xC000, and the cartridge.
BiosPart(B, address) ==
    IF B.enable_bios THEN BiosData(address % 8192) ELSE 255

CartPart(B, address) ==
    IF B.enable_cart_rom
    THEN RomData(B.bank_offsets[address \div SlotSize] + (address % SlotSize))
    ELSE 255

\* C14: a read below 0xC000 (of images that hold the bytes indexed) returns
\* the bitwise AND of the BIOS byte at addr & 0x1FFF (0xFF when the BIOS is
\* disabled) and the mapped cartridge byte (0xFF when the cartridge is
\* disabled), hence 0xFF when both are disabled; a read at or above 0xC000
\* returns RAM[addr & 0x1FFF].
C14_ReadByte ==
    (last.op = "read_byte" /\ ~last.ub) =>
        /\ ~aborted
        /\ last.address < 49152 =>
              /\ last.ret = BitAnd(BiosPart(bus, last.address),
                                   CartPart(bus, last.address))
              /\ (~bus.enable_bios /\ ~bus.enable_cart_rom) => last.ret = 255
        /\ last.address >= 49152 =>
              last.ret = RamGet(bus.ram, last.address % 8192)

\* C14 witness: a read of slot 1 with BIOS and cartridge both enabled and
\* bank 3 mapped, whose result differs from both contributions.
C14_Witness ==
    /\ last.op = "read_byte" /\ ~last.ub /\ last.address = 16385
    /\ bus.enable_bios /\ bus.enable_cart_rom
    /\ bus.bank_offsets[1] = 3 * SlotSize
    /\ last.ret # BiosPart(bus, 16385)
    /\ last.ret # CartPart(bus, 16385)

\* The mirror of a RAM address: a XOR 0x2000.
Mirror(a) == IF a < 57344 THEN a + 8192 ELSE a - 8192

\* The state that writes may not touch below 0xC000.
WriteFrame(B) ==
    <<B.ram, B.bank_offsets, B.rom_write, B.ram_0, B.ram_1, B.ram_bank_select,
      B.bank_shift, B.enable_joysticks, B.enable_bios, B.enable_ram,
      B.enable_card_rom, B.enable_cart_rom, B.enable_ext_port>>

\* A Bus::write_byte call.
IsWrite == ~aborted /\ last'.op = "write_byte"

\* C15: a write below 0xC000 changes no RAM, mapper or memory-enable state
\* and does not abort; a write of v to a in 0xC000-0xFFFF makes read_byte
\* return v at a and at a XOR 0x2000, and a write to 0xFFFC-0xFFFF is
\* stored in RAM as well as passed to mapper_ctrl_write.
C15_WriteByte ==
    [][IsWrite =>
          LET a == last'.address
              v == last'.value
          IN  /\ a < 49152 => (~aborted' /\ WriteFrame(bus') = WriteFrame(bus))
              /\ a >= 49152 =>
                    /\ ~aborted'
                    /\ Bus_read_byte(bus', a, 0) = v
                    /\ Bus_read_byte(bus', Mirror(a), 0) = v
              /\ a >= 65532 =>
                    /\ RamGet(bus'.ram, a % 8192) = v
                    /\ [bus' EXCEPT !.ram = bus.ram] = mapper_ctrl_write(bus, a, v)]_vars

\* Offsets inside a 16 KiB slot at which the mapping is observed.
SlotOffsets == {0, 1, 8191, 8192, 16383}

\* C16: after a write of v to 0xFFFD + s (v a bank of the cartridge), with
\* the cartridge enabled and the BIOS disabled, read_byte(s * 0x4000 + o)
\* returns ROM[v * 0x4000 + o] for the offsets o of the slot, and the bank
\* offsets of the other two slots are unchanged.
C16_BankSwitch ==
    [][(IsWrite /\ last'.address \in 65533..65535) =>
          LET s == last'.address - 65533
              v == last'.value
          IN  /\ ~aborted'
              /\ \A t \in (0..2) \ {s} : bus'.bank_offsets[t] = bus.bank_offsets[t]
              /\ (v < RomBanks /\ bus'.enable_cart_rom /\ ~bus'.enable_bios) =>
                    \A o \in SlotOffsets :
                       /\ ~Bus_read_byte_ub(bus', s * SlotSize + o)
                       /\ Bus_read_byte(bus', s * SlotSize + o, 0)
                             = RomData(v * SlotSize + o)]_vars

\* C16 witness: bank 3 was mapped into slot 1 and then read there with the
\* cartridge enabled and the BIOS disabled.
C16_Witness ==
    /\ last.op = "read_byte" /\ last.address = 16385 /\ ~last.ub
    /\ bus.enable_cart_rom /\ ~bus.enable_bios
    /\ bus.bank_offsets[1] = 3 * SlotSize /\ bus.bank_offsets[0] = 0
    /\ last.ret = RomData(3 * SlotSize + 1)
    /\ last.ret # RomData(1)

\* C17: a guest write of v to 0xFFFC completes without aborting and leaves
\* rom_write = bit 7, ram_0 = bit 4, ram_1 = bit 3, ram_bank_select = bit 2
\* and bank_shift = v & 3, with the three bank offsets unchanged.
C17_MapperControl ==
    [][(IsWrite /\ last'.address = 65532) =>
          LET v == last'.value
          IN  /\ ~aborted'
              /\ bus'.rom_write = (Bit(v, 7) = 1)
              /\ bus'.ram_0 = (Bit(v, 4) = 1)
              /\ bus'.ram_1 = (Bit(v, 3) = 1)
              /\ bus'.ram_bank_select = (Bit(v, 2) = 1)
              /\ bus'.bank_shift = v % 4
              /\ bus'.bank_offsets = bus.bank_offsets]_vars

\* C18: when no BIOS file was found, every read below 0xC000 returns only
\* the cartridge contribution (or 0xFF) and never indexes the empty BIOS
\* image.
C18_MissingBios ==
    (bus.bios_size = 0 /\ last.op = "read_byte" /\ last.address < 49152) =>
        /\ ~(bus.enable_bios /\ last.address % 8192 >= bus.bios_size)
        /\ ~aborted
        /\ last.ret = CartPart(bus, last.address)

(***************************************************************************)
(*                            Decoder claims                               *)
(***************************************************************************)

\* C19: fetching DD DD, DD FD, FD DD or FD FD ends the step in the fatal
\* abort state; none of them goes on to decode and execute a following
\* opcode.
C19_IllegalPrefixesAbort ==
    (last.op = "z80_step" /\ last.instr \in {"dd_dd", "dd_fd", "fd_dd", "fd_fd"}) =>
        /\ aborted
        /\ last.instr_fatal
        /\ last.pc1 = U16(last.pc0 + 2)

\* C20: for every second byte b after an ED prefix the dispatch selects an
\* entry of the ED table, an implemented handler or an unimplemented abort;
\* no b indexes outside the table.
C20_EdDispatchInTable ==
    (last.op = "z80_step" /\ last.instr \in {"im1", "ldir", "ed_bf", "ed_c0", "ed_ff"}) =>
        /\ ~last.oob
        /\ last.instr = "ed_bf" => (aborted /\ last.instr_fatal)

(***************************************************************************)
(* C23: every Z80::step() that returns and did not execute LD R,A leaves   *)
(* R with bit 7 as it was and the low seven bits advanced by one, 0x7F     *)
(* wrapping to 0x00, whether the instruction had a prefix byte or not and  *)
(* whether an interrupt was serviced or not.                               *)
(***************************************************************************)
C23_RefreshRegister ==
    (last.op = "z80_step" /\ ~aborted /\ last.instr # "ld_r_a") =>
        LET low == last.r0 % 128
        IN  last.r1 = (last.r0 - low) + (IF low = 127 THEN 0 ELSE low + 1)

\* A prefixed instruction stepped with R = 0xFF (loaded by LD R,A): R = 0x80.
C23_Witness ==
    /\ last.op = "z80_step" /\ ~aborted
    /\ last.instr \in {"im1", "ldir"}
    /\ last.r0 = 255 /\ last.r1 = 128

(***************************************************************************)
(* Claims about single instructions (SpecFlow, SpecJr, SpecAlu).           *)
(***************************************************************************)
IsRun(name) == last.op = "z80_step" /\ last.instr = name

AfterRun(first, second) ==
    /\ IsRun(second)
    /\ last.prev.op = "z80_step" /\ last.prev.instr = first

\* Every cell holds in M1 what it held in M0.
MemSame(M0, M1) ==
    \A a \in (DOMAIN M0) \cup (DOMAIN M1) : read_byte(M0, a) = read_byte(M1, a)

\* The registers a program can see, apart from PC and the refresh counter.
Visible(Z) == [Z EXCEPT !.pc = 0, !.r = 0, !.instructions = 0]

(***************************************************************************)
(* C21: PUSH BC stores the high byte of BC at SP-1 and the low byte at     *)
(* SP-2 (mod 2^16) and leaves SP lowered by two; a POP DE that follows it  *)
(* returns the word pushed and restores SP, also when SP is 0x0000 or      *)
(* 0x0001 and the stack wraps.                                             *)
(***************************************************************************)
C21_StackSymmetry ==
    /\ IsRun("push_bc") =>
          /\ read_byte(memory, U16(last.z0.sp + 65535)) = last.z0.bc \div 256
          /\ read_byte(memory, U16(last.z0.sp + 65534)) = last.z0.bc % 256
          /\ last.z1.sp = U16(last.z0.sp + 65534)
    /\ AfterRun("push_bc", "pop_de") =>
          /\ last.z1.de = last.prev.z0.bc
          /\ last.z1.sp = last.prev.z0.sp

\* A word with different bytes pushed and popped with SP = 0x0001.
C21_Witness ==
    /\ AfterRun("push_bc", "pop_de")
    /\ last.prev.z0.sp = 1
    /\ last.prev.z0.bc = 4660
    /\ last.z1.de = 4660

(***************************************************************************)
(* C22: one EXX exchanges BC, DE, HL with BC', DE', HL' and leaves A, F,   *)
(* AF', IX, IY, SP and memory alone; EXX twice and EX AF,AF' twice each    *)
(* restore every main and shadow register and every flag.                  *)
(***************************************************************************)
C22_ExchangesAreInvolutions ==
    /\ IsRun("exx") =>
          /\ last.z1.bc = last.z0.bc_ /\ last.z1.bc_ = last.z0.bc
          /\ last.z1.de = last.z0.de_ /\ last.z1.de_ = last.z0.de
          /\ last.z1.hl = last.z0.hl_ /\ last.z1.hl_ = last.z0.hl
          /\ last.z1.a = last.z0.a /\ last.z1.f = last.z0.f
          /\ last.z1.af_ = last.z0.af_
          /\ last.z1.ix = last.z0.ix /\ last.z1.iy = last.z0.iy
          /\ last.z1.sp = last.z0.sp
          /\ MemSame(last.m0, memory)
    /\ AfterRun("exx", "exx") => Visible(last.z1) = Visible(last.prev.z0)
    /\ AfterRun("ex_af", "ex_af") => Visible(last.z1) = Visible(last.prev.z0)

\* EXX twice from registers that all differ from their shadows.
C22_Witness ==
    /\ AfterRun("exx", "exx")
    /\ last.prev.z0.bc # last.prev.z0.bc_
    /\ last.prev.z0.de # last.prev.z0.de_
    /\ last.prev.z0.hl # last.prev.z0.hl_
    /\ last.prev.z1.hl = last.prev.z0.hl_
    /\ last.z1.hl = last.prev.z0.hl

(***************************************************************************)
(* C26: JR at address a, for each of its five forms and every displacement *)
(* e, always consumes the displacement byte: PC = a + 2 when the condition *)
(* is false, PC = a + 2 + e (e sign-extended, mod 2^16) when it is true.   *)
(***************************************************************************)
JrTaken(op, f) ==
    CASE op = 24 -> TRUE
      [] op = 32 -> ~f.z
      [] op = 40 -> f.z
      [] op = 48 -> ~f.c
      [] op = 56 -> f.c

C26_JrConsumesDisplacement ==
    IsRun("jr") =>
        LET a == last.z0.pc
            e == last.bytes[2]
            d == IF e >= 128 THEN e - 256 ELSE e
        IN  /\ ~last.fatal
            /\ last.z1.pc = IF JrTaken(last.bytes[1], last.z0.f)
                            THEN (a + 2 + d + 65536) % 65536
                            ELSE (a + 2) % 65536

(***************************************************************************)
(* C27: a CALL nn at address a whose condition holds pushes a + 3 and sets *)
(* PC = nn, and a RET whose condition holds, executed next, restores       *)
(* PC = a + 3 and SP; a CALL or RET whose condition is false changes       *)
(* neither SP nor memory, and the false CALL leaves PC = a + 3.            *)
(***************************************************************************)
CondTrue(op, f) ==
    IF op \in {205, 201} THEN TRUE
    ELSE CASE (op \div 8) % 8 = 0 -> ~f.z
           [] (op \div 8) % 8 = 1 -> f.z
           [] (op \div 8) % 8 = 2 -> ~f.c
           [] (op \div 8) % 8 = 3 -> f.c
           [] (op \div 8) % 8 = 4 -> ~f.p_v
           [] (op \div 8) % 8 = 5 -> f.p_v
           [] (op \div 8) % 8 = 6 -> ~f.s
           [] (op \div 8) % 8 = 7 -> f.s

CallTaken == IsRun("call") /\ CondTrue(last.bytes[1], last.z0.f)

RetAfterCall ==
    /\ AfterRun("call", "ret")
    /\ CondTrue(last.prev.bytes[1], last.prev.z0.f)
    /\ CondTrue(last.bytes[1], last.z0.f)

C27_CallRet ==
    /\ CallTaken =>
          /\ last.z1.pc = last.bytes[2] + 256 * last.bytes[3]
          /\ last.z1.sp = U16(last.z0.sp + 65534)
          /\ Word(memory, last.z1.sp) = U16(last.z0.pc + 3)
    /\ (IsRun("call") /\ ~CallTaken) =>
          /\ last.z1.pc = U16(last.z0.pc + 3)
          /\ last.z1.sp = last.z0.sp
          /\ MemSame(last.m0, memory)
    /\ (IsRun("ret") /\ ~CondTrue(last.bytes[1], last.z0.f)) =>
          /\ last.z1.sp = last.z0.sp
          /\ MemSame(last.m0, memory)
    /\ RetAfterCall =>
          /\ last.z1.pc = U16(last.prev.z0.pc + 3)
          /\ last.z1.sp = last.prev.z0.sp

\* A conditional CALL taken with SP = 0x0001 and the conditional RET that
\* returns from it.
C27_Witness ==
    /\ RetAfterCall
    /\ last.prev.bytes[1] # 205 /\ last.bytes[1] # 201
    /\ last.prev.z0.sp = 1
    /\ last.z1.pc = LoadAddress + 3

(***************************************************************************)
(* C28: each of the eight RST opcodes C7, CF, D7, DF, E7, EF, F7, FF       *)
(* pushes the address of the next instruction and sets PC to its vector,   *)
(* 0x00, 0x08, ... 0x38.                                                   *)
(***************************************************************************)
C28_Rst ==
    IsRun("rst") =>
        /\ ~last.fatal
        /\ last.z1.pc = last.bytes[1] - 199
        /\ last.z1.sp = U16(last.z0.sp + 65534)
        /\ Word(memory, last.z1.sp) = U16(last.z0.pc + 1)

(***************************************************************************)
(* C29: ADC HL,rr stores (HL + rr + C) mod 2^16 and sets Z exactly when    *)
(* that 16-bit result is zero, S to its bit 15, P/V on signed overflow,    *)
(* H on a carry out of bit 11, C on a carry out of bit 15 and N = 0.       *)
(***************************************************************************)
PairValue(Z, op) ==
    CASE (op \div 16) % 4 = 0 -> Z.bc
      [] (op \div 16) % 4 = 1 -> Z.de
      [] (op \div 16) % 4 = 2 -> Z.hl
      [] (op \div 16) % 4 = 3 -> Z.sp

Signed16(w) == IF w >= 32768 THEN w - 65536 ELSE w

C29_AdcHl ==
    IsRun("adc_hl") =>
        LET hl == last.z0.hl
            rr == PairValue(last.z0, last.bytes[2])
            cin == IF last.z0.f.c THEN 1 ELSE 0
            sum == hl + rr + cin
            res == sum % 65536
            signed == Signed16(hl) + Signed16(rr) + cin
        IN  /\ last.z1.hl = res
            /\ last.z1.f.z = (res = 0)
            /\ last.z1.f.s = (res >= 32768)
            /\ last.z1.f.p_v = (signed > 32767 \/ signed < -32768)
            /\ last.z1.f.h = ((hl % 4096) + (rr % 4096) + cin >= 4096)
            /\ last.z1.f.c = (sum >= 65536)
            /\ last.z1.f.n = FALSE

(***************************************************************************)
(* C30: SBC HL,rr stores (HL - rr - C) mod 2^16 and sets C on a borrow out *)
(* of bit 15, H on a borrow out of bit 11, P/V when HL and rr differ in    *)
(* sign and the result's sign differs from HL's, Z when the 16-bit result  *)
(* is zero, S to its bit 15 and N = 1.                                     *)
(***************************************************************************)
C30_SbcHl ==
    IsRun("sbc_hl") =>
        LET hl == last.z0.hl
            rr == PairValue(last.z0, last.bytes[2])
            cin == IF last.z0.f.c THEN 1 ELSE 0
            res == (hl + 131072 - rr - cin) % 65536
        IN  /\ last.z1.hl = res
            /\ last.z1.f.c = (hl < rr + cin)
            /\ last.z1.f.h = ((hl % 4096) < (rr % 4096) + cin)
            /\ last.z1.f.p_v = /\ (hl >= 32768) # (rr >= 32768)
                               /\ (res >= 32768) # (hl >= 32768)
            /\ last.z1.f.z = (res = 0)
            /\ last.z1.f.s = (res >= 32768)
            /\ last.z1.f.n = TRUE

(***************************************************************************)
(* C24: after Vdp::reset(), called in any state the port traffic can       *)
(* reach, vcounter, hcounter and cycle_counter are 0, line_counter is      *)
(* 0xFF, VRAM is all zero, the next control-port byte is taken as the      *)
(* first byte of a pair and interrupt_pending() is false.                  *)
(***************************************************************************)
C24_ResetReinitialises ==
    last.op = "vdp_reset" =>
        /\ vdp.vcounter = 0 /\ vdp.hcounter = 0 /\ vdp.cycle_counter = 0
        /\ vdp.line_counter = 255
        /\ \A a \in 0..(VramSize - 1) : VramGet(vdp.vram, a) = 0
        /\ ~vdp.ctrl_high
        /\ ~interrupt_pending(vdp)

(***************************************************************************)
(* C25: in the CP/M harness a CALL 0x0005 with C = 2 or C = 9 prints (the  *)
(* character in E, or the string at DE up to '$'), returns to the          *)
(* instruction after the CALL with SP restored and does not end the run;   *)
(* any other C aborts; and the process ends with exit code 0 when, and     *)
(* only when, the program has performed a port-out to port 0x00.           *)
(***************************************************************************)
BdosReturned ==
    /\ IsRun("ret") /\ last.z0.pc = BdosEntry + 2
    /\ last.prev.op = "z80_step" /\ last.prev.instr = "in"
    /\ last.prev.z0.pc = BdosEntry
    /\ last.prev.prev.op = "z80_step" /\ last.prev.prev.instr = "call"
    /\ last.prev.prev.z1.pc = BdosEntry

C25_CpmHarness ==
    /\ BdosReturned =>
          LET call == last.prev.prev
              in == last.prev
              c == in.z0.bc % 256
              text == SubSeq(harness.out, in.port + 1, Len(harness.out))
          IN  /\ c \in {2, 9}
              /\ ~aborted /\ harness.exit_code = -1 /\ ~harness.should_quit
              /\ last.z1.pc = U16(call.z0.pc + 3)
              /\ last.z1.sp = call.z0.sp
              /\ c = 2 => text = <<in.z0.de % 256>>
              /\ c = 9 =>
                    /\ \A i \in 1..Len(text) :
                          /\ text[i] = read_byte(in.m0, U16(in.z0.de + i - 1))
                          /\ text[i] # 36
                    /\ read_byte(in.m0, U16(in.z0.de + Len(text))) = 36
    /\ (IsRun("in") /\ (last.z0.bc % 256) \notin {2, 9}) => aborted
    /\ (IsRun("out") /\ last.fx.port_out = 0) => harness.exit_code = 0
    /\ harness.exit_code = 0 => (IsRun("out") /\ last.fx.port_out = 0)


(***************************************************************************)
(* SpecRot: one rotate or shift - RLCA, RRCA, RLA, RRA or a row 00..3F of  *)
(* cb_instructions[] with a register operand - on a register file whose    *)
(* 8-bit registers all hold the same byte: bytes with bit 0, bit 7, bits 3 *)
(* and 5, odd and even parity, with the flags all clear, all set, only C   *)
(* set, or only N and H set.                                               *)
(***************************************************************************)
MaxRotSteps == 1

RotValues == {0, 1, 128, 129, 40, 85, 254}
RotFlagChoices == {0, 255, 1, 18}
RotBytes ==
    {<<op>> : op \in {7, 15, 23, 31}}
    \cup {<<203, op>> : op \in {x \in 0..63 : x % 8 # 6}}

InitRot ==
    /\ vdp = Vdp_reset(VdpStatic)
    /\ \E v \in RotValues, f \in RotFlagChoices :
          z80 = [Z80_reset EXCEPT !.pc = LoadAddress, !.f = FlagRegister_set(f),
                                  !.a = v, !.bc = v * 256 + v, !.de = v * 256 + v,
                                  !.hl = v * 256 + v]
    /\ memory = <<>>
    /\ bus = BusStatic
    /\ aborted = FALSE
    /\ last = NoStep
    /\ io = NoIo
    /\ blk = NoBlk
    /\ ghost = NoGhost
    /\ harness = HarnessStatic

RotStep == RunStep(RotBytes, MaxRotSteps, 1)

NextRot == RotStep

SpecRot == InitRot /\ [][NextRot]_vars

(***************************************************************************)
(* C31: after RLCA, RRCA, RLA or RRA the carry holds the bit rotated out   *)
(* of A (bit 7 for the left rotates, bit 0 for the right ones), N and H    *)
(* are clear, X and Y are bits 3 and 5 of the new A, and S, Z and P/V are  *)
(* as before.                                                              *)
(***************************************************************************)
C31_AccumulatorRotates ==
    IsRun("rot_a") =>
        /\ ~last.fatal
        /\ last.z1.f.c = (Bit(last.z0.a, IF last.bytes[1] \in {7, 23} THEN 7 ELSE 0) = 1)
        /\ ~last.z1.f.n /\ ~last.z1.f.h
        /\ last.z1.f.b3 = (Bit(last.z1.a, 3) = 1)
        /\ last.z1.f.b5 = (Bit(last.z1.a, 5) = 1)
        /\ last.z1.f.s = last.z0.f.s
        /\ last.z1.f.z = last.z0.f.z
        /\ last.z1.f.p_v = last.z0.f.p_v

\* The operand register of a CB row, read from a register file.
RowValue(Z, opcode) == get_register(Z, RowRegister(opcode))

(***************************************************************************)
(* C32: every CB 00..3F row with a register operand completes, with C the  *)
(* bit shifted out of the operand (bit 7 for RLC, RL, SLA, SLL, bit 0 for  *)
(* RRC, RR, SRA, SRL), N and H clear, and S, Z, P/V, X, Y the sign, zero   *)
(* test, even parity, bit 3 and bit 5 of the byte left in the register.    *)
(***************************************************************************)
C32_CbRotatesAndShifts ==
    IsRun("cb_rot") =>
        LET op == last.bytes[2]
            res == RowValue(last.z1, op)
            out == IF (op \div 8) \in {0, 2, 4, 6} THEN 7 ELSE 0
        IN  /\ ~last.fatal
            /\ last.z1.f.c = (Bit(RowValue(last.z0, op), out) = 1)
            /\ ~last.z1.f.n /\ ~last.z1.f.h
            /\ last.z1.f.s = (Bit(res, 7) = 1)
            /\ last.z1.f.z = (res = 0)
            /\ last.z1.f.p_v = parity(res)
            /\ last.z1.f.b3 = (Bit(res, 3) = 1)
            /\ last.z1.f.b5 = (Bit(res, 5) = 1)


(***************************************************************************)
(* SpecBit: one BIT n,(HL), BIT n,(IX+d) or BIT n,(IY+d).  HL, IX and IY   *)
(* hold the same address, whose high and low bytes differ in bits 3 and 5; *)
(* the displacements reach below and above it, over a page boundary too.   *)
(* The byte tested is the one the program file holds at the address.       *)
(***************************************************************************)
MaxBitSteps == 1

BitAddresses == {10240, 296, 2303, 8360, 511}
BitDisplacements == {0, 1, 255, 128}
BitFlagChoices == {0, 255}
BitBytes ==
    {<<203, 70 + 8 * n>> : n \in 0..7}
    \cup {<<p, 203, d, 70 + 8 * n>> : p \in {221, 253}, d \in BitDisplacements, n \in 0..7}

InitBit ==
    /\ vdp = Vdp_reset(VdpStatic)
    /\ \E w \in BitAddresses, f \in BitFlagChoices :
          z80 = [Z80_reset EXCEPT !.pc = LoadAddress, !.f = FlagRegister_set(f),
                                  !.hl = w, !.ix = w, !.iy = w]
    /\ memory = <<>>
    /\ bus = BusStatic
    /\ aborted = FALSE
    /\ last = NoStep
    /\ io = NoIo
    /\ blk = NoBlk
    /\ ghost = NoGhost
    /\ harness = HarnessStatic

BitStep == RunStep(BitBytes, MaxBitSteps, 1)

NextBit == BitStep

SpecBit == InitBit /\ [][NextBit]_vars

\* The address a BIT on memory tests, from the registers before the step.
BitAddress ==
    CASE last.bytes[1] = 203 -> last.z0.hl
      [] last.bytes[1] = 221 -> U16(last.z0.ix + 65536 + S8(last.bytes[3]))
      [] last.bytes[1] = 253 -> U16(last.z0.iy + 65536 + S8(last.bytes[3]))

(***************************************************************************)
(* C33: BIT n on the byte at (HL), (IX+d) or (IY+d) sets Z and P/V when    *)
(* bit n of the byte is clear, H = 1, N = 0, S only for n = 7 with the bit *)
(* set, leaves C alone, and copies bits 11 and 13 of the address tested    *)
(* into X and Y.                                                           *)
(***************************************************************************)
C33_BitOnMemory ==
    (IsRun("bit") \/ IsRun("bit_xy")) =>
        LET n == (last.bytes[Len(last.bytes)] - 64) \div 8
            set == Bit(read_byte(last.m0, BitAddress), n) = 1
        IN  /\ ~last.fatal
            /\ last.z1.f.z = ~set
            /\ last.z1.f.p_v = ~set
            /\ last.z1.f.h /\ ~last.z1.f.n
            /\ last.z1.f.s = (n = 7 /\ set)
            /\ last.z1.f.c = last.z0.f.c
            /\ last.z1.f.b3 = (Bit(BitAddress, 11) = 1)
            /\ last.z1.f.b5 = (Bit(BitAddress, 13) = 1)


(***************************************************************************)
(* SpecBcd: decimal arithmetic.  The program file holds ADC A,n ; DAA or   *)
(* SBC A,n ; DAA with A and n packed-BCD bytes and the carry clear or set, *)
(* or a DAA alone on an accumulator that is not a BCD sum, and ends with a *)
(* NOP.                                                                    *)
(***************************************************************************)
MaxBcdSteps == 2

BcdBytes == {16 * hi + lo : hi \in 0..9, lo \in 0..9}
DaaValues == {154, 153, 10, 160, 255, 0}
DaaFlagChoices == {0, 236}
BcdStepBytes == {<<op, b>> : op \in {206, 222}, b \in BcdBytes} \cup {<<39>>, <<0>>}

InitBcd ==
    /\ vdp = Vdp_reset(VdpStatic)
    /\ \/ \E a \in BcdBytes, b \in BcdBytes, f \in {0, 1}, op \in {206, 222} :
             /\ z80 = [Z80_reset EXCEPT !.pc = LoadAddress, !.a = a,
                                        !.f = FlagRegister_set(f)]
             /\ memory = Place(<<>>, LoadAddress, <<op, b, 39, 0>>)
       \/ \E a \in DaaValues, f \in DaaFlagChoices :
             /\ z80 = [Z80_reset EXCEPT !.pc = LoadAddress, !.a = a,
                                        !.f = FlagRegister_set(f)]
             /\ memory = Place(<<>>, LoadAddress, <<39, 0, 0>>)
    /\ bus = BusStatic
    /\ aborted = FALSE
    /\ last = NoStep
    /\ io = NoIo
    /\ blk = NoBlk
    /\ ghost = NoGhost
    /\ harness = HarnessStatic

BcdStep == RunStep(BcdStepBytes, MaxBcdSteps, 1)

NextBcd == BcdStep

SpecBcd == InitBcd /\ [][NextBcd]_vars

\* DAA is about to run on A = 0x9A with C, H and N clear.
DaaEdgeCase ==
    /\ IsRun("daa")
    /\ last.z0.a = 154
    /\ ~last.z0.f.c /\ ~last.z0.f.h /\ ~last.z0.f.n

(***************************************************************************)
(* C34: DAA on A = 0x9A with C = H = N = 0 leaves A = 0x00, C = 1, Z = 1   *)
(* and P/V = 1, and H = 1: the low nibble 0xA was above 9.                 *)
(***************************************************************************)
C34_DaaEdgeCase ==
    DaaEdgeCase =>
        /\ last.z1.a = 0
        /\ last.z1.f.c /\ last.z1.f.z /\ last.z1.f.p_v
        /\ last.z1.f.h

\* C34 as stated: the same, with H = 0 after the DAA.
C34_DaaEdgeCaseAsStated ==
    DaaEdgeCase =>
        /\ last.z1.a = 0
        /\ last.z1.f.c /\ last.z1.f.z /\ last.z1.f.p_v
        /\ ~last.z1.f.h

C34_Witness == DaaEdgeCase /\ last.z1.a = 0 /\ ~last.fatal

\* A packed-BCD byte as a number 0..99, and back.
BcdDecode(x) == (x \div 16) * 10 + (x % 16)
BcdEncode(n) == (n \div 10) * 16 + (n % 10)

(***************************************************************************)
(* C35: on packed-BCD bytes a and b with carry-in c, ADC A,b ; DAA leaves  *)
(* the BCD encoding of (a + b + c) mod 100 in A with C set exactly when    *)
(* the sum reaches 100, and SBC A,b ; DAA leaves the encoding of           *)
(* (a - b - c) mod 100 with C set exactly when a < b + c.                  *)
(***************************************************************************)
C35_DecimalAdjust ==
    LET a == BcdDecode(last.prev.z0.a)
        b == BcdDecode(last.prev.bytes[2])
        c == B2N(last.prev.z0.f.c)
    IN  /\ AfterRun("adc_n", "daa") =>
              /\ ~last.fatal
              /\ last.z1.a = BcdEncode((a + b + c) % 100)
              /\ last.z1.f.c = (a + b + c >= 100)
        /\ AfterRun("sbc_n", "daa") =>
              /\ ~last.fatal
              /\ last.z1.a = BcdEncode((a + 100 - b - c) % 100)
              /\ last.z1.f.c = (a < b + c)

\* 25 - 48 - 1 in decimal: a borrow out of both digits.
C35_Witness ==
    /\ AfterRun("sbc_n", "daa")
    /\ last.prev.z0.a = 37 /\ last.prev.bytes[2] = 72 /\ last.prev.z0.f.c
    /\ last.z1.a = 118 /\ last.z1.f.c


(***************************************************************************)
(* SpecOtir: the program file holds an OTIR, and the host steps the CPU    *)
(* for as long as PC is on it.  B is 1, 2, 3 or 0, C is the port, and HL   *)
(* points at a block in the file area or at the last two bytes of the      *)
(* address space.  blk is the run so far: the registers OTIR started from  *)
(* and the (port, value) pairs handed to z80.port_out, in order.           *)
(***************************************************************************)
MaxOtirSteps == 256

OtirBChoices == {1, 2, 3, 0}
OtirPorts == {190, 127}
OtirHLChoices == {768, 65534}
OtirBytes == {<<237, 179>>}

InitOtir ==
    /\ vdp = Vdp_reset(VdpStatic)
    /\ \E b \in OtirBChoices, c \in OtirPorts, hl \in OtirHLChoices :
          z80 = [Z80_reset EXCEPT !.pc = LoadAddress, !.bc = b * 256 + c, !.hl = hl]
    /\ memory = Place(<<>>, LoadAddress, <<237, 179>>)
    /\ bus = BusStatic
    /\ aborted = FALSE
    /\ last = NoStep
    /\ io = NoIo
    /\ blk = NoBlk
    /\ ghost = NoGhost
    /\ harness = HarnessStatic

\* The run after a step that executed `name` from registers Z with result S.
OtirAfter(name, Z, S) ==
    IF name # "otir" THEN blk
    ELSE IF blk.valid
         THEN [blk EXCEPT !.k = @ + 1,
                          !.log = Append(@, <<S.fx.port_out, S.fx.out_value>>)]
         ELSE [valid |-> TRUE, pc |-> Z.pc, b |-> Hi8(Z.bc), c |-> Lo8(Z.bc),
               hl |-> Z.hl, k |-> 1,
               log |-> <<<<S.fx.port_out, S.fx.out_value>>>>]

OtirStep ==
    \E bytes \in OtirBytes :
        /\ ~aborted
        /\ ghost.steps < MaxOtirSteps
        /\ (blk.valid => z80.pc = blk.pc)
        /\ CanHold(memory, z80.pc, bytes)
        /\ LET M == Place(memory, z80.pc, bytes)
               S == Z80_step(z80, M, [ed |-> "crash", copy |-> 1, host |-> "cpm"])
           IN  /\ z80' = S.z
               /\ memory' = S.m
               /\ aborted' = S.fatal
               /\ blk' = OtirAfter(InstrName(bytes), z80, S)
               /\ last' = RunSummary(bytes, z80, M, S, NoPrev)
        /\ ghost' = [ghost EXCEPT !.steps = @ + 1]
        /\ UNCHANGED <<harness, vdp, bus, io>>

NextOtir == OtirStep

SpecOtir == InitOtir /\ [][NextOtir]_vars

\* The number of writes an OTIR started with B = b is to make.
OtirLength(b) == IF b = 0 THEN 256 ELSE b

(***************************************************************************)
(* C36: an OTIR started with B = n is stepped n times (256 times for       *)
(* n = 0): until then PC stays on the instruction, after the last step PC  *)
(* is behind it, B = 0 and HL has advanced by the number of steps; every   *)
(* step made one port_out call, to port C, and the k-th call carried the   *)
(* byte at HL + k - 1.                                                     *)
(***************************************************************************)
C36_OtirRun ==
    blk.valid =>
        /\ ~aborted
        /\ blk.k <= OtirLength(blk.b)
        /\ Len(blk.log) = blk.k
        /\ \A i \in 1..blk.k :
              blk.log[i] = <<blk.c, read_byte(memory, U16(blk.hl + i - 1))>>
        /\ blk.k < OtirLength(blk.b) => z80.pc = blk.pc
        /\ blk.k = OtirLength(blk.b) =>
              /\ z80.pc = U16(blk.pc + 2)
              /\ get_register(z80, "B") = 0
              /\ z80.hl = U16(blk.hl + blk.k)
        /\ get_register(z80, "C") = blk.c

\* B = 0 at the start: 256 writes, the last of them done.
C36_Witness ==
    /\ blk.valid /\ blk.b = 0 /\ blk.k = 256
    /\ Len(blk.log) = 256
    /\ get_register(z80, "B") = 0


(***************************************************************************)
(* SpecBlockIrq: an LDIR or LDDR of two or three bytes with interrupts     *)
(* enabled in mode 1, and the handler EI ; RET at 0x0038.  The host calls  *)
(* raise_interrupt() at any moment and steps the CPU until PC has passed   *)
(* the block instruction.  blk is the copy so far: where it started, the   *)
(* source bytes, how many iterations have run, how many were followed by   *)
(* an interrupt service, and whether the latest step was one of them.  The *)
(* block goes from 0x0300 to 0x0400, clear of the program and the stack.   *)
(***************************************************************************)
MaxRaises == 2

IrqVector == 56
BlockLengths == {2, 3}
BlockOpcodes == {176, 184}
BlockIrqBytes == {<<237, op>> : op \in BlockOpcodes} \cup {<<251>>, <<201>>}

InitBlockIrq ==
    /\ vdp = Vdp_reset(VdpStatic)
    /\ \E n \in BlockLengths, op \in BlockOpcodes, a \in {0, 255} :
          /\ z80 = [Z80_reset EXCEPT !.pc = LoadAddress, !.a = a, !.bc = n,
                                     !.hl = 768, !.de = 1024,
                                     !.interrupt_mode = 1,
                                     !.interrupts_enabled = TRUE,
                                     !.next_interrupts_enabled = TRUE]
          /\ memory = Place(Place(<<>>, LoadAddress, <<237, op>>), IrqVector, <<251, 201>>)
    /\ bus = BusStatic
    /\ aborted = FALSE
    /\ last = NoStep
    /\ io = NoIo
    /\ blk = NoBlk
    /\ ghost = NoGhost
    /\ harness = HarnessStatic

\* The k-th address of a block that starts at `first`: upwards for LDIR,
\* downwards for LDDR.
BlockAddress(name, first, k) ==
    IF name = "ldir" THEN U16(first + k - 1) ELSE U16(first + 65536 - (k - 1))

\* The copy after a step that executed `name` from machine Z, M with result S.
BlockIrqAfter(name, Z, M, S) ==
    IF name \notin {"ldir", "lddr"} THEN
        IF blk.valid THEN [blk EXCEPT !.serviced = FALSE] ELSE blk
    ELSE IF blk.valid
         THEN [blk EXCEPT !.k = @ + 1, !.irqs = @ + B2N(S.serviced),
                          !.serviced = S.serviced]
         ELSE [valid |-> TRUE, name |-> name, pc |-> Z.pc, n |-> Z.bc,
               hl |-> Z.hl, de |-> Z.de,
               src |-> [k \in 1..Z.bc |-> read_byte(M, BlockAddress(name, Z.hl, k))],
               k |-> 1, irqs |-> B2N(S.serviced), serviced |-> S.serviced]

BlockIrqStep ==
    \E bytes \in BlockIrqBytes :
        /\ ~aborted
        /\ z80.pc \in {LoadAddress, IrqVector, IrqVector + 1}
        /\ CanHold(memory, z80.pc, bytes)
        /\ LET M == Place(memory, z80.pc, bytes)
               S == Z80_step(z80, M, [ed |-> "crash", copy |-> 1, host |-> "cpm"])
           IN  /\ z80' = S.z
               /\ memory' = S.m
               /\ aborted' = S.fatal
               /\ blk' = BlockIrqAfter(InstrName(bytes), z80, M, S)
               /\ last' = RunSummary(bytes, z80, M, S, NoPrev)
        /\ ghost' = [ghost EXCEPT !.steps = @ + 1]
        /\ UNCHANGED <<harness, vdp, bus, io>>

BlockIrqRaise ==
    /\ ~aborted
    /\ ghost.nw < MaxRaises
    /\ z80.pc \in {LoadAddress, IrqVector, IrqVector + 1}
    /\ ~z80.interrupt_pending
    /\ z80' = raise_interrupt(z80)
    /\ ghost' = [ghost EXCEPT !.nw = @ + 1]
    /\ UNCHANGED <<harness, vdp, memory, bus, aborted, last, io, blk>>

NextBlockIrq == BlockIrqStep \/ BlockIrqRaise

SpecBlockIrq == InitBlockIrq /\ [][NextBlockIrq]_vars

(***************************************************************************)
(* C39: when an LDIR or LDDR iteration that leaves BC # 0 is followed by   *)
(* an interrupt service, the word pushed is the address of the ED prefix   *)
(* and PC is 0x0038; and once PC has passed the instruction BC = 0, as     *)
(* many iterations have run as the block has bytes, HL and DE have moved   *)
(* by that many, and the target holds the source bytes.                    *)
(***************************************************************************)
C39_BlockCopyResumes ==
    blk.valid =>
        /\ ~aborted
        /\ z80.bc = blk.n - blk.k
        /\ (blk.serviced /\ z80.bc # 0) =>
              /\ read_16(memory, z80.sp) = blk.pc
              /\ z80.sp = U16(last.z0.sp + 65534)
              /\ z80.pc = IrqVector
        /\ z80.pc = U16(blk.pc + 2) =>
              /\ z80.bc = 0
              /\ blk.k = blk.n
              /\ z80.hl = BlockAddress(blk.name, blk.hl, blk.n + 1)
              /\ z80.de = BlockAddress(blk.name, blk.de, blk.n + 1)
              /\ \A i \in 1..blk.n :
                    read_byte(memory, BlockAddress(blk.name, blk.de, i)) = blk.src[i]

\* An LDDR interrupted after each of its first two iterations has finished.
C39_Witness ==
    /\ blk.valid /\ blk.name = "lddr" /\ blk.n = 3 /\ blk.irqs = 2
    /\ z80.pc = U16(blk.pc + 2)
    /\ z80.bc = 0
    /\ z80.sp = 65535


(***************************************************************************)
(* SpecVdpMode: after the resets the guest writes VDP registers 0 and 1    *)
(* through the control port, in any order and any number of times, with    *)
(* values that set none, one pair or both pairs of the mode bits (bits 1   *)
(* and 2, bits 3 and 4), and reads the status port in between.             *)
(***************************************************************************)
ModeLowBytes == {0, 6, 24, 30}
ModeHighBytes == {128, 129}

ModeControlOut ==
    /\ UNCHANGED ghost
    /\ \E value \in (IF vdp.ctrl_high THEN ModeHighBytes ELSE ModeLowBytes) :
          PortOut(191, value, "screen")

NextVdpMode == ModeControlOut \/ StatusIn

SpecVdpMode == InitVdp /\ [][NextVdpMode]_vars

(***************************************************************************)
(* C37: the mode nibble always shows the registers as last written: M2 and *)
(* M4 are bits 1 and 2 of register 0, M1 and M3 are bits 4 and 3 of        *)
(* register 1.                                                             *)
(***************************************************************************)
C37_ModeFollowsRegisters ==
    /\ BitfieldGet(vdp.mode, 1) = BitfieldGet(vdp.vdpModeControl1, 1)
    /\ BitfieldGet(vdp.mode, 3) = BitfieldGet(vdp.vdpModeControl1, 2)
    /\ BitfieldGet(vdp.mode, 0) = BitfieldGet(vdp.vdpModeControl2, 4)
    /\ BitfieldGet(vdp.mode, 2) = BitfieldGet(vdp.vdpModeControl2, 3)


(***************************************************************************)
(* SpecHost: main.cpp's loop.  One action is one iteration: the test of    *)
(* Vdp::interrupt_pending() with Z80::raise_interrupt(), Z80::step() with  *)
(* Bus::port_in as its port handler, and Vdp::step(cycles).  The guest     *)
(* has run its prologue: DI, IM 1, a stack in work RAM, VDP register 0 =   *)
(* 0x26 and register 1 = 0x20; the VDP stands at line 224 with its cycle   *)
(* counter a few instructions short of the end of the line.  `memory`      *)
(* stands for the bus: the program in the first ROM page, the stack in     *)
(* RAM.                                                                    *)
(***************************************************************************)
MaxHostSteps == 5     \* iterations of the loop

HostStackTop == 57328

StatusPort == 191

HostBytes == {<<0>>, <<219, StatusPort>>, <<251>>, <<243>>}

HostCycleChoices == {cycles_per_line - 4, cycles_per_line - 12, cycles_per_line - 20}

InitHost ==
    /\ \E c \in HostCycleChoices :
          vdp = [register_write(register_write(Vdp_reset(VdpStatic), 0, 38), 1, 32)
                    EXCEPT !.vcounter = 224, !.cycle_counter = c]
    /\ z80 = [Z80_reset EXCEPT !.interrupt_mode = 1, !.sp = HostStackTop]
    /\ memory = <<>>
    /\ bus = BusStatic
    /\ aborted = FALSE
    /\ last = NoStep
    /\ io = NoIo
    /\ blk = NoBlk
    /\ ghost = NoGhost
    /\ harness = HarnessStatic

\* The cartridge is an input: a cell the program has not fetched yet may
\* hold any instruction, a fetched one keeps its byte.
RomHolds(M, address, bytes) ==
    \A k \in 1..Len(bytes) :
        U16(address + k - 1) \in DOMAIN M => M[U16(address + k - 1)] = bytes[k]

\* What is known about the latest status read made with interrupts
\* disabled: whether Z80::raise_interrupt() had latched a request by then,
\* whether an EI followed, whether Vdp::scanline set frame_interrupt after
\* the read, and whether an interrupt was serviced after the read.
HostAfter(bytes, latched, S, V1, V2) ==
    IF S.fx.port_in = StatusPort /\ ~S.mid.interrupts_enabled /\ ~S.fatal
    THEN [valid |-> TRUE, latched |-> latched, ei |-> FALSE, serviced |-> FALSE,
          new_raise |-> (V2.frame_interrupt /\ ~V1.frame_interrupt)]
    ELSE IF blk.valid
         THEN [blk EXCEPT !.ei = @ \/ bytes = <<251>>,
                          !.serviced = @ \/ S.serviced,
                          !.new_raise = @ \/ (V2.frame_interrupt /\ ~V1.frame_interrupt)]
         ELSE blk

HostIteration ==
    \E bytes \in HostBytes :
        /\ ~aborted
        /\ ghost.steps < MaxHostSteps
        /\ RomHolds(memory, z80.pc, bytes)
        /\ LET Z0 == IF interrupt_pending(vdp) THEN raise_interrupt(z80) ELSE z80
               M == Place(memory, z80.pc, bytes)
               S == Z80_step(Z0, M, [ed |-> "crash", copy |-> 1, host |-> "sms",
                                     vdp |-> vdp])
               V1 == IF S.fx.port_in >= 0 THEN port_in(vdp, S.fx.port_in) ELSE vdp
               V2 == IF S.fatal \/ Vdp_step_fatal(V1, S.cycles) THEN V1
                     ELSE Vdp_step(V1, S.cycles)
           IN  /\ z80' = S.z
               /\ memory' = S.m
               /\ vdp' = V2
               /\ aborted' = (S.fatal \/ Vdp_step_fatal(V1, S.cycles))
               /\ blk' = HostAfter(bytes, Z0.interrupt_pending, S, V1, V2)
               /\ last' = RunSummary(bytes, Z0, M, S, NoPrev)
        /\ ghost' = [ghost EXCEPT !.steps = @ + 1]
        /\ UNCHANGED <<harness, bus, io>>

NextHost == HostIteration

SpecHost == InitHost /\ [][NextHost]_vars

\* C38: after a read of the VDP status port made with interrupts disabled,
\* no interrupt is serviced (which takes a later EI) unless the VDP has
\* raised a new interrupt since that read.
C38_StatusReadCancelsInterrupt ==
    (blk.valid /\ blk.ei /\ blk.serviced) => blk.new_raise

\* The same with the request that Z80::raise_interrupt() latched before the
\* read taken into account: a service without a new raise is the service
\* of that latched request.
HostServiceIsLatchedOrNew ==
    (blk.valid /\ blk.serviced) => (blk.new_raise \/ blk.latched)

HostNewRaiseServiced == blk.valid /\ blk.serviced /\ blk.new_raise /\ ~blk.latched


\* C40: whatever bank values the guest wrote to 0xFFFD-0xFFFF, a cartridge
\* read (Bus::read_byte below 0xC000 with the cartridge enabled) indexes
\* rom.data inside the loaded image.
C40_BankIndexInsideRom ==
    (last.op = "read_byte" /\ last.address < 49152 /\ bus.enable_cart_rom)
        => Rom_read_index(bus, last.address) < RomSize

\* The same for banks that exist in the file: a bank value below RomBanks in
\* every slot keeps the index inside the image.
BankIndexInsideRomForSmallBanks ==
    (/\ last.op = "read_byte" /\ last.address < 49152 /\ bus.enable_cart_rom
     /\ \A s \in 0..2 : bus.bank_offsets[s] < RomSize)
        => Rom_read_index(bus, last.address) < RomSize

====
